---- MODULE Spec2Model ----
(***************************************************************************)
(* Model of the recording engine of north-mcpify                           *)
(* (src/src/recording/recorder.py, src/src/utils/event_listener.py).       *)
(*                                                                         *)
(* The recorder runs on one asyncio event loop: a handler runs without     *)
(* interruption from one await to the next.  Every action below is one     *)
(* such uninterrupted segment of one task.                                 *)
(***************************************************************************)
EXTENDS Integers, Sequences, FiniteSets, TLC

\* ------------------------------------------------------------------ bounds
\* Number of event-handler tasks (live events and programmatic calls).
MaxTasks == 3
\* Number of those that are record_programmatic_action calls.
MaxProgrammatic == 1
\* Number of handlers whose _record_operation_core body raises.
MaxRaised == 1
\* Number of samples the HTML monitor takes.
MaxSamples == 2
\* Number of clicks the user makes in the page, and of selection hotkeys.
MaxClicks == 2
MaxHotkeys == 1
\* Number of events one page emits.
MaxEvents == 3
\* Depth of the frame chain of a frame-trace.
MaxDepth == 2
\* Number of highlighted screenshots taken one after the other.
MaxCalls == 2
\* Number of sessions set up one after the other.
MaxSessions == 3
\* Number of samples of a monitor that runs on its own for a long time.
MaxTicks == 16
\* Number of get_playwright_instance calls of one provider.
MaxInstances == 3
\* Number of operations in the log a session saves.
MaxRecorded == 1

Tasks == 1..MaxTasks

\* ------------------------------------------------------- values of the code
\* Python's None for a string-valued field, and a key a dict does not have.
None == "None"
\* A screenshot path "screenshots/step_<n>.png" is modelled by n; None by 0.
NoShot == 0
NoStep == 0

ClickSelector == "#btn"
InputSelectors == {"#q", "#p"}
EmptySelector == ""
Values == {"a", "ab"}

\* The events the in-page instrumentation ships to the host handlers.
LiveEvents ==
    {[src |-> "live", type |-> "click", selector |-> ClickSelector, value |-> ""]}
    \cup {[src |-> "live", type |-> "input", selector |-> "#q", value |-> v] :
              v \in Values}
    \cup {[src |-> "live", type |-> "input", selector |-> "#p", value |-> "a"]}
    \cup {[src |-> "live", type |-> "input", selector |-> EmptySelector, value |-> "a"]}

\* The calls PlaywrightProvider makes to record_programmatic_action.
ProgrammaticCalls ==
    {[src |-> "prog", type |-> "click", selector |-> ClickSelector, value |-> ""],
     [src |-> "prog", type |-> "input", selector |-> "#q", value |-> "a"]}

\* What the wrapped page methods of PlaywrightProvider record: recorded_click,
\* recorded_fill and recorded_goto.
PageSelector == "page"
ProviderCalls ==
    {[src |-> "prog", type |-> "click", selector |-> ClickSelector, value |-> ""]}
    \cup {[src |-> "prog", type |-> "input", selector |-> "#q", value |-> v] :
              v \in Values}
    \cup {[src |-> "prog", type |-> "navigation", selector |-> PageSelector,
            value |-> "https://a"]}

NoEvent == [src |-> None, type |-> None, selector |-> None, value |-> None]

\* The URLs the recorded page visits; "about:blank" ends the session.
AboutBlank == "about:blank"
Urls == {"https://a", AboutBlank}
\* md5 digests of page.content().
Hashes == {"h1", "h2"}
\* What `await page.evaluate("document.readyState")` does in one tick: it
\* returns, raises an error whose text has 'navigation', 'destroyed' or
\* 'detached', or raises any other error.
CheckOutcomes == {"ok", "transient", "fatal"}

VARIABLES
    rec,                     \* the operation recorder:
                             \*   operations: self.operations, the operation log
                             \*   last_input_by_selector: self.last_input_by_selector
                             \*   step_counter: step_counter['count'] of
                             \*     _setup_event_listeners
                             \*   files: n is in files iff screenshots/step_<n>.png exists
                             \*   sem_value: _record_operation_semaphore._value
                             \*   sem_waiters: _record_operation_semaphore._waiters (FIFO)
                             \*   pc: position of each handler task
                             \*   ev: event_data of each handler task
                             \*   sid: step_id argument of each handler task
                             \*   prev: local `prev` of _record_input_with_replacement
                             \*     (its step_id)
                             \*   shot: local `screenshot_path` of _record_operation_core
                             \*   gate_order: history, tasks in the order they acquired
                             \*     the gate
                             \*   op_task: history, the task that appended operations[i]
                             \*   appended: history, step_ids each task appended
                             \*   superseded: history, step_ids deleted by a later
                             \*     input on the same selector
                             \*   raisers: history, tasks whose
                             \*     _record_operation_core body raised
                             \*   pending_input_operations:
                             \*     self.pending_input_operations
    ctl,                     \* position of start_recording
    stop_recording_flag,     \* self.stop_recording_flag
    recording_interrupted,   \* self.recording_interrupted
    browser_open,            \* the browser process is running
    page_open,               \* self.page is open (it is in context.pages)
    page_url,                \* self.page.url
    page_hash,               \* md5 of what page.content() would return now
    artifacts,               \* files of the session directory written so far
    stop_reason,             \* the branch that left the supervisory loop
    last_check,              \* outcome of the latest page-liveness check
    mon_pc,                  \* position of _monitor_html_changes
    mon_cancel,              \* html_monitor_task.cancel() was requested
    mon_url,                 \* local `current_url` of the monitor
    last_url,                \* local `last_url` of the monitor
    consecutive_same_count,  \* local `consecutive_same_count` of the monitor
    html_cache,              \* self.html_cache: url -> hash and last_updated
    url_timeline,            \* self.url_timeline (the urls)
    samples,                 \* number of monitor samples; it is the timestamp
    entry,                   \* the entry point that launched the session
    attempted,               \* history: finalization steps that were attempted
    failed,                  \* history: finalization steps that raised
    saved_anchor,            \* return_reference_element of the written metadata.json
    element_selection_mode,  \* self.element_selection_mode
    selected_element,        \* self.selected_element
    sel_pc,                  \* position of safe_handle_element_selection
    page,                    \* the injected script of the page's frames:
                             \*   frame_mode: window.elementSelectionMode of each frame
                             \*   pending_enable: frames with an 'enable_selection'
                             \*     message in flight
                             \*   channel: events emitted, not yet handled (FIFO)
                             \*   hotkeys: history, activations of the selection hotkey
                             \*   selections: history, element_selected events emitted
                             \*   clicks: history, clicks the user made
                             \*   late_click: history, fate of the clicks made
                             \*     after the hotkey
                             \*   escaped: history, the user left the selection
                             \*     mode with Escape
                             \*   cancel_click: history, fate of the clicks made
                             \*     after an Escape with no element chosen
    transport,               \* one page's event transport:
                             \*   exposed: __automationEmit is registered on the page
                             \*   setup: the listener instances whose loop was started
                             \*   queue: window.webAutomationEvents
                             \*   batch: per instance, the drained events not yet handled
                             \*   emitted: number of events the page emitted
                             \*   pushed: history, events sent through __automationEmit
                             \*   dispatched: history, per event, handler calls made
    composed,                \* the last _compose_cross_frame_xpath call:
                             \*   args: its arguments
                             \*   result: what it returned, as the list of
                             \*     joined segments
    hl,                      \* _take_highlighted_screenshot and the page it marks:
                             \*   pc: position of the call
                             \*   probe: what the existence probe came to
                             \*   element_exists: element_exists.get('exists')
                             \*   styled: the element carries the highlight styling
                             \*   frame_box: webautomation-info-box is in the frame
                             \*   top_box: webautomation-top-info-box is in the top page
                             \*   shot_file: the screenshot file of this call exists
                             \*   capture_failures: page.screenshot attempts that failed
                             \*   calls: calls of the highlighter so far
    ov,                      \* the listener setup and the initialization overlay:
                             \*   entry: the entry point that sets the session up
                             \*   pc: position of the listener setup
                             \*   overlay_up: the overlay covers the page
                             \*   init_done: sessionStorage.__automation_init_done is '1'
                             \*   removal_attempted: __automationHideOverlay was evaluated
                             \*   setup_result: how the listener setup went
                             \*   sessions: sessions set up so far
    session_id,              \* self.session_id of the recorder
    store                    \* the sessions directory and its manager:
                             \*   session_dirs: the session directories
                             \*   metadata_json: per session, metadata.json
                             \*     (its ai_analysis key)
                             \*   operations_json: per session, operations.json
                             \*   analysis_json: per session, ai_analysis.json
                             \*   provider: the manager's PlaywrightProvider:
                             \*     active, the keys of _active_sessions in
                             \*     insertion order; finalized, history, the
                             \*     sessions whose recorder was stopped and
                             \*     finalized; last, the last finalize_recording
                             \*   ai: the trigger_ai_analysis call: pc, its
                             \*     position; attempt, the loop variable;
                             \*     history, how each agent invocation ended;
                             \*     success and code, what the call returned
                             \*   auth_state: sessions with an auth_state.json
                             \*   recorded: per session, the number of
                             \*     operations in the saved log
                             \*   sm_call: the last SessionManager call and
                             \*     what it returned

\* The state of the operation recorder.
rvars == <<rec>>
\* The state of the session controller and of the HTML monitor.
cvars == <<ctl, stop_recording_flag, recording_interrupted, browser_open,
           page_open, page_url, page_hash, artifacts, stop_reason, last_check,
           mon_pc, mon_cancel, mon_url, last_url, consecutive_same_count,
           html_cache, url_timeline, samples>>
\* The bookkeeping of finalization.
fvars == <<entry, attempted, failed, saved_anchor>>
\* The state of the element-selection handlers of the host.
hvars == <<element_selection_mode, selected_element, sel_pc>>
\* Everything outside the recorder, the controller and finalization.
\* The state of the page: the selection mode of its frames and its events.
pvars == <<page>>
\* One page's event transport: the push binding and the polled queue.
evars == <<transport>>
\* The last call of the locator composition.
lvars == <<composed>>
\* The highlighter and the nodes it injects into the page.
svars == <<hl>>
\* The listener setup of a session and the initialization overlay.
ovars == <<ov>>
\* The session the programmatic surface records into.
avars == <<session_id>>
\* The session store SessionManager reads and writes.
mvars == <<store>>
zvars == <<lvars, svars, ovars, avars, mvars>>
yvars == <<pvars, evars, zvars>>
xvars == <<hvars, yvars>>
vars == <<rvars, cvars, fvars, xvars>>

\* ------------------------------------------------------------ the gate
\* Mutant: the gate created with two permits.
SemaphoreTwoPermits == 1 + 1

\* asyncio.Semaphore(1) created in WebRecorder.__init__.
SemaphoreInit == 1

\* Mutant: the core entered without taking the gate.
NeverLocked == FALSE

\* Semaphore.locked(): no permit left, or somebody is already waiting.
SemLocked == rec.sem_value = 0 \/ rec.sem_waiters # <<>>

\* Mutant: the released permit goes to the newest waiter.
WakeLast(waiters) == Len(waiters)

\* Semaphore._wake_up_next(): the waiter that gets the released permit.
WakeIndex(waiters) == 1

\* The tasks inside `async with self._record_operation_semaphore`.
Holders == {t \in Tasks : rec.pc[t] \in {"shot", "ctx"}}

\* ------------------------------------------------------- pure helpers
SeqRemoveAt(s, i) == [j \in 1..(Len(s) - 1) |-> IF j < i THEN s[j] ELSE s[j + 1]]

\* The replacement path of _handle_merged_input: a live input with a selector.
\* Mutant: every input goes through the replacement path, whoever sent it.
ReplacesAnyInput(e) ==
    e.type = "input" /\ e.selector # EmptySelector

UsesReplacement(e) ==
    e.src = "live" /\ e.type = "input" /\ e.selector # EmptySelector

\* Mutant: the previous input of the selector is never looked up.
LastInputForgotten(selector) == 0

\* self.last_input_by_selector.get(selector): the recorded step_id, or none.
LastInputGet(selector) ==
    IF selector \in DOMAIN rec.last_input_by_selector
    THEN rec.last_input_by_selector[selector].step_id
    ELSE NoStep

\* The operation dict built by the main path of _record_operation_core.
FullOperation(step_id, e, screenshot_path) ==
    [step_id |-> step_id, action |-> e.type, selector |-> e.selector,
     value |-> e.value, screenshot |-> screenshot_path, error |-> FALSE]

\* The minimal dict built by the except branch of _record_operation_core:
\* step_id, timestamp, action, error; no selector, value or screenshot key.
FallbackOperation(step_id, e) ==
    [step_id |-> step_id, action |-> e.type, selector |-> None,
     value |-> None, screenshot |-> NoShot, error |-> TRUE]

\* Index of the first operation with the given step_id (0 when there is none).
IndexOfStepId(ops, step_id) ==
    IF \E i \in 1..Len(ops) : ops[i].step_id = step_id
    THEN CHOOSE i \in 1..Len(ops) :
             /\ ops[i].step_id = step_id
             /\ \A j \in 1..(i - 1) : ops[j].step_id # step_id
    ELSE 0

\* _remove_screenshot_file: unlink the file a non-null path names.
RemoveScreenshotFile(fs, screenshot_path) ==
    IF screenshot_path = NoShot THEN fs ELSE fs \ {screenshot_path}

\* Mutant: the superseded operation stays in the log.
KeepOperations(ops, step_id) == ops

\* _delete_operation_by_step_id: the log after the deletion.
DeleteOperationByStepId(ops, step_id) ==
    LET i == IndexOfStepId(ops, step_id)
    IN IF i = 0 THEN ops ELSE SeqRemoveAt(ops, i)

\* _delete_operation_by_step_id: the files after the deletion.
DeleteScreenshotByStepId(ops, fs, step_id) ==
    LET i == IndexOfStepId(ops, step_id)
    IN IF i = 0 THEN fs ELSE RemoveScreenshotFile(fs, ops[i].screenshot)

\* Mutant: the except branch records nothing.
AppendUnlessRaised(ops, op, raised) == IF raised THEN ops ELSE Append(ops, op)

\* self.operations.append(operation), reached on the main path and in the
\* except branch of _record_operation_core.
CoreAppend(ops, op, raised) == Append(ops, op)

\* step_counter['count'] += 1
NextStepCount(count) == count + 1

\* record_programmatic_action: step_id = len(self.operations) + 1
ProgrammaticStepId(ops) == Len(ops) + 1

\* Mutant: the handler of an input buffers it for a later flush.
BuffersInput(pending, selector) ==
    [s \in DOMAIN pending \cup {selector} |->
        IF s = selector
        THEN [event_data |-> [src |-> "live", type |-> "input",
                              selector |-> selector, value |-> ""],
              step_id |-> NoStep]
        ELSE pending[s]]

\* _cancel_pending_flush_for_selector: the entry of the selector is popped.
CancelPendingFlushForSelector(pending, selector) ==
    [s \in DOMAIN pending \ {selector} |-> pending[s]]

\* _flush_all_pending_inputs: every pending entry is popped and recorded
\* through _record_operation; the operations it appends.
RECURSIVE FlushedOperations(_)
FlushedOperations(pending) ==
    IF DOMAIN pending = {} THEN <<>>
    ELSE LET s == CHOOSE x \in DOMAIN pending : TRUE
         IN  <<FullOperation(pending[s].step_id, pending[s].event_data, NoShot)>>
                 \o FlushedOperations(CancelPendingFlushForSelector(pending, s))

\* `if self.pending_input_operations: await self._flush_all_pending_inputs()`
FlushAllPendingInputs(r) ==
    IF DOMAIN r.pending_input_operations = {} THEN r
    ELSE [r EXCEPT !.operations = @ \o FlushedOperations(r.pending_input_operations),
                   !.pending_input_operations = <<>>]

\* self.pending_input_operations = {} of WebRecorder.__init__
PendingInit == <<>>

\* ------------------------------------------------------------------ Init
InitRecorder ==
    /\ rec = [operations |-> <<>>,
              last_input_by_selector |-> <<>>,
              step_counter |-> 0,
              files |-> {},
              sem_value |-> SemaphoreInit,
              sem_waiters |-> <<>>,
              pc |-> [t \in Tasks |-> "idle"],
              ev |-> [t \in Tasks |-> NoEvent],
              sid |-> [t \in Tasks |-> NoStep],
              prev |-> [t \in Tasks |-> NoStep],
              shot |-> [t \in Tasks |-> NoShot],
              gate_order |-> <<>>,
              op_task |-> <<>>,
              appended |-> [t \in Tasks |-> <<>>],
              superseded |-> {},
              raisers |-> {},
              pending_input_operations |-> PendingInit]

InitController ==
    /\ ctl = "init"
    /\ stop_recording_flag = FALSE
    /\ recording_interrupted = FALSE
    /\ browser_open = FALSE
    /\ page_open = FALSE
    /\ page_url = AboutBlank
    /\ page_hash = "h1"
    /\ artifacts = {}
    /\ stop_reason = None
    /\ last_check = None
    /\ mon_pc = "off"
    /\ mon_cancel = FALSE
    /\ mon_url = None
    /\ last_url = None
    /\ consecutive_same_count = 0
    /\ html_cache = <<>>
    /\ url_timeline = <<>>
    /\ samples = 0
    /\ entry = None
    /\ attempted = {}
    /\ failed = {}
    /\ saved_anchor = None

InitSelection ==
    /\ element_selection_mode = FALSE
    /\ selected_element = None
    /\ sel_pc = "idle"

\* The frames of the recorded page.
Frames == {"top", "child"}

InitPage ==
    /\ page = [frame_mode |-> [f \in Frames |-> FALSE], pending_enable |-> {},
               channel |-> <<>>, hotkeys |-> 0, selections |-> 0, clicks |-> 0,
               late_click |-> None, escaped |-> FALSE, cancel_click |-> None]

\* The listener instances a popup gets: one from the context's 'page'
\* event, one from the opener's 'popup' event.
Listeners == {1, 2}
EventIds == 1..MaxEvents

InitEvents ==
    /\ transport = [exposed |-> FALSE, setup |-> {}, queue |-> <<>>,
                    batch |-> [i \in Listeners |-> <<>>], emitted |-> 0,
                    pushed |-> {}, dispatched |-> [id \in EventIds |-> 0]]

InitLocator ==
    /\ composed =
           [args |-> [called |-> FALSE,
                      frame_trace |-> [chain |-> <<>>, current_frame_url |-> ""],
                      inner_xpath |-> "", top_page_url |-> ""],
            result |-> <<>>]

InitHighlighter ==
    /\ hl = [pc |-> "idle", probe |-> None, element_exists |-> FALSE,
             styled |-> FALSE, frame_box |-> FALSE, top_box |-> FALSE,
             shot_file |-> FALSE, capture_failures |-> 0, calls |-> 0]

InitOverlay ==
    /\ ov = [entry |-> None, pc |-> "idle", overlay_up |-> FALSE,
             init_done |-> FALSE, removal_attempted |-> FALSE,
             setup_result |-> None, sessions |-> 0]

\* ------------------------------------------------- the session store
SessionIds == {"s1", "s2"}
Signatures == {"f", "g"}

\* The ai_analysis dict _save_session writes into metadata.json: not analyzed,
\* no timestamp, no parameters, no signature.  As JSON text.
Placeholder ==
    [signature |-> None, parameters |-> 0, analyzed |-> FALSE, stamped |-> FALSE]

\* A file of a session directory: absent, unreadable as JSON, or JSON text.
Absent == [state |-> "absent", text |-> Placeholder]
Corrupt == [state |-> "corrupt", text |-> Placeholder]
Ok(text) == [state |-> "ok", text |-> text]

\* The analysis results handed to save_analysis: Python dicts with a
\* function_signature and one suggested parameter, held in a list, a tuple
\* or a set.
Analyses ==
    [signature : Signatures, kind : {"list", "tuple", "set"}, n : {1},
     analyzed : {FALSE}, stamped : {FALSE}]

\* analysis_result['analyzed'] = True; analysis_result['analysis_timestamp'] = now
Stamp(a) == [a EXCEPT !.analyzed = TRUE, !.stamped = TRUE]

\* json.dump raises TypeError on a set.
Serializable(a) == a.kind # "set"

\* json.dump: lists and tuples both become arrays.
JsonDump(a) ==
    [signature |-> a.signature, parameters |-> a.n, analyzed |-> a.analyzed,
     stamped |-> a.stamped]

\* json.load: an array becomes a list.
JsonLoad(text) ==
    [signature |-> text.signature, kind |-> "list", n |-> text.parameters,
     analyzed |-> text.analyzed, stamped |-> text.stamped]

\* What a SessionManager call returned.
NoEntry == [listed |-> FALSE, status |-> None, operations_count |-> 0,
            analyzed |-> FALSE]
NoCall == [op |-> None, session |-> None, returned |-> FALSE, found |-> FALSE,
           ai_analysis |-> JsonLoad(Placeholder), arg |-> JsonLoad(Placeholder),
           code |-> FALSE, error |-> None,
           listing |-> [s \in SessionIds |-> NoEntry]]

\* The names sessions are started and finalized under, as the pieces
\* str.startswith compares; a key is a name, or a name and a timestamp.
SessionNames == {<<"job">>, <<"job", "_extra">>}
Timestamp == "_20240101_100000"
NoFinalize == [name |-> <<>>, key |-> <<>>, success |-> FALSE]

\* How one agent invocation of call_user_ai_analysis ends: .result says
\* SUCCESS and function.py is there, .result says SUCCESS without
\* function.py, .result says FAILED, .result has some other text, there is
\* no .result after the wait, or the attempt raises.
AttemptOutcomes ==
    {"function", "no_function", "failed", "other", "no_result", "raised"}
max_attempts == 3

InitStore ==
    /\ store = [session_dirs |-> {},
                provider |-> [active |-> <<>>, finalized |-> {},
                              last |-> NoFinalize],
                ai |-> [pc |-> "idle", attempt |-> 0, history |-> <<>>,
                        success |-> FALSE, code |-> None],
                metadata_json |-> [s \in SessionIds |-> Absent],
                operations_json |-> [s \in SessionIds |-> Absent],
                analysis_json |-> [s \in SessionIds |-> Absent],
                auth_state |-> {},
                recorded |-> [s \in SessionIds |-> 0],
                sm_call |-> NoCall]

\* WebRecorder.__init__: self.session_id = None
InitSession ==
    /\ session_id = None

Init ==
    /\ InitRecorder /\ InitController /\ InitSelection /\ InitPage /\ InitEvents
    /\ InitLocator
    /\ InitHighlighter
    /\ InitOverlay
    /\ InitSession
    /\ InitStore

\* Tasks are created in index order (they are interchangeable).
Fresh(t) == rec.pc[t] = "idle" /\ \A u \in Tasks : u < t => rec.pc[u] # "idle"

\* `async with self._record_operation_semaphore` entered by task t for event e
\* with step_id n, from the recorder state r its caller leaves: the permit is
\* taken at once when the gate is free, else the task queues.  Entering
\* _record_input_with_replacement reads `prev`.
EnterGate(r, t, e, n) ==
    LET entered == [r EXCEPT !.ev[t] = e, !.sid[t] = n]
    IN  IF SemLocked
        THEN [entered EXCEPT !.sem_waiters = Append(@, t),
                             !.pc[t] = "wait"]
        ELSE [entered EXCEPT !.sem_value = @ - 1,
                             !.pc[t] = "shot",
                             !.pending_input_operations =
                                 IF UsesReplacement(e)
                                 THEN CancelPendingFlushForSelector(@, e.selector)
                                 ELSE @,
                             !.prev[t] = IF UsesReplacement(e)
                                         THEN LastInputGet(e.selector) ELSE NoStep,
                             !.gate_order = Append(@, t)]

\* safe_handle_click / safe_handle_input up to the first suspension point.
HandleLive(t, e) ==
    /\ Fresh(t)
    /\ rec' = EnterGate([rec EXCEPT !.step_counter = NextStepCount(@)], t, e,
                        NextStepCount(rec.step_counter))
\* A live event reaches its handler.
LiveEvent(t, e) ==
    /\ HandleLive(t, e)
    /\ UNCHANGED <<cvars, fvars, xvars>>

\* record_programmatic_action up to the first suspension point.
ProgrammaticAction(t, e) ==
    /\ Fresh(t)
    /\ Cardinality({u \in Tasks : rec.ev[u].src = "prog"}) < MaxProgrammatic
    /\ rec' = EnterGate(rec, t, e, ProgrammaticStepId(rec.operations))
    /\ UNCHANGED <<cvars, fvars, xvars>>
\* initialize_recording, the session path: self.session_id = ...
SessionName == "session_1"

SetSessionId ==
    /\ session_id = None
    /\ session_id' = SessionName
    /\ UNCHANGED <<rvars, cvars, fvars, hvars, pvars, evars, lvars, svars, ovars, mvars>>

\* record_programmatic_action, the whole call up to its first suspension
\* point: without a session id it returns at once, else it takes
\* len(self.operations) + 1 as step_id and enters _record_operation.
RecordProgrammaticAction(t, e) ==
    /\ Fresh(t)
    /\ rec' = IF session_id = None
              THEN [rec EXCEPT !.pc[t] = "skipped", !.ev[t] = e]
              ELSE EnterGate(rec, t, e, ProgrammaticStepId(rec.operations))
    /\ UNCHANGED <<cvars, fvars, xvars>>
\* _record_operation_core, the highlighted screenshot: `wrote` says whether
\* page.screenshot wrote the file, `returned` whether _take_highlighted_screenshot
\* came back inside the 10 s wait_for.  The path is kept only when the call
\* returned and the file exists.
\* screenshot_path after the check of screenshot_success and of the file.
TrustsSuccess(screenshot_success, step_id, on_disk) ==
    IF screenshot_success THEN step_id ELSE NoShot
ScreenshotPath(screenshot_success, step_id, on_disk) ==
    IF screenshot_success /\ step_id \in on_disk THEN step_id ELSE NoShot

TakeScreenshot(t, wrote, returned) ==
    /\ rec.pc[t] = "shot"
    /\ LET on_disk == IF wrote THEN rec.files \cup {rec.sid[t]} ELSE rec.files
       IN  rec' = [rec EXCEPT
                      !.files = on_disk,
                      !.shot[t] = ScreenshotPath(returned, rec.sid[t], on_disk),
                      !.pc[t] = "ctx"]
    /\ UNCHANGED <<cvars, fvars, xvars>>
\* The rest of the handler, from the last await of _record_operation_core to the
\* release of the gate: append the operation (the fallback one when the body
\* raised), and on the replacement path delete the previous input of the
\* selector and update last_input_by_selector; then Semaphore.release().
FinishRecord(t, raised) ==
    /\ rec.pc[t] = "ctx"
    /\ LET e == rec.ev[t]
           op == IF raised THEN FallbackOperation(rec.sid[t], e)
                 ELSE FullOperation(rec.sid[t], e, rec.shot[t])
           ops1 == CoreAppend(rec.operations, op, raised)
           grew == Len(ops1) > Len(rec.operations)
           owners1 == IF grew THEN Append(rec.op_task, t) ELSE rec.op_task
           replace == /\ UsesReplacement(e)
                      /\ rec.prev[t] # NoStep
                      /\ rec.prev[t] # rec.sid[t]
           idx == IF replace THEN IndexOfStepId(ops1, rec.prev[t]) ELSE 0
           lastmap == IF UsesReplacement(e)
                      THEN [s \in DOMAIN rec.last_input_by_selector \cup {e.selector} |->
                              IF s = e.selector
                              THEN [step_id |-> rec.sid[t], screenshot |-> op.screenshot]
                              ELSE rec.last_input_by_selector[s]]
                      ELSE rec.last_input_by_selector
           w == WakeIndex(rec.sem_waiters)
           recorded ==
               [rec EXCEPT
                   !.operations = IF replace
                                  THEN DeleteOperationByStepId(ops1, rec.prev[t])
                                  ELSE ops1,
                   !.files = IF replace
                             THEN DeleteScreenshotByStepId(ops1, rec.files, rec.prev[t])
                             ELSE @,
                   !.op_task = IF idx = 0 THEN owners1 ELSE SeqRemoveAt(owners1, idx),
                   !.superseded = IF replace THEN @ \cup {rec.prev[t]} ELSE @,
                   !.last_input_by_selector = lastmap,
                   !.appended[t] = IF grew THEN Append(@, ops1[Len(ops1)].step_id)
                                   ELSE @,
                   !.raisers = IF raised THEN @ \cup {t} ELSE @,
                   !.shot[t] = NoShot,
                   !.pc[t] = "done",
                   !.prev[t] = NoStep]
       IN  rec' =
               IF rec.sem_waiters = <<>>
               THEN [recorded EXCEPT !.sem_value = @ + 1]
               ELSE LET u == rec.sem_waiters[w]
                    IN  [recorded EXCEPT
                            !.sem_waiters = SeqRemoveAt(@, w),
                            !.pc[u] = "shot",
                            !.pending_input_operations =
                                IF UsesReplacement(rec.ev[u])
                                THEN CancelPendingFlushForSelector(@, rec.ev[u].selector)
                                ELSE @,
                            !.prev[u] = IF UsesReplacement(rec.ev[u])
                                        THEN IF rec.ev[u].selector \in DOMAIN lastmap
                                             THEN lastmap[rec.ev[u].selector].step_id
                                             ELSE NoStep
                                        ELSE NoStep,
                            !.gate_order = Append(@, u)]
    /\ UNCHANGED <<cvars, fvars, xvars>>
\* The body of _record_operation_core completes and appends the full operation.
RecordOperation(t) == FinishRecord(t, FALSE)

\* The body of _record_operation_core raises: the except branch appends the
\* minimal fallback operation.
RecordFallback(t) ==
    /\ Cardinality(rec.raisers) < MaxRaised
    /\ FinishRecord(t, TRUE)

Screenshot == \E t \in Tasks, wrote \in BOOLEAN, returned \in BOOLEAN :
                  TakeScreenshot(t, wrote, returned)

\* A live recording: click and input handlers only.
NextLive ==
    \/ \E t \in Tasks, e \in LiveEvents : LiveEvent(t, e)
    \/ Screenshot
    \/ \E t \in Tasks : RecordOperation(t)

SpecLive == Init /\ [][NextLive]_vars

\* A session of initialize_recording driven through the wrapped page methods,
\* while the user types into the field the harness fills.
UserInputs == {e \in LiveEvents : e.type = "input" /\ e.selector = "#q"}

NextProgrammatic ==
    \/ SetSessionId
    \/ \E t \in Tasks, e \in ProviderCalls : RecordProgrammaticAction(t, e)
    \/ \E t \in Tasks, e \in UserInputs : LiveEvent(t, e)
    \/ Screenshot
    \/ \E t \in Tasks : RecordOperation(t)

SpecProgrammatic == Init /\ [][NextProgrammatic]_vars

\* The recorder with its programmatic surface and with internal failures.
Next ==
    \/ \E t \in Tasks, e \in LiveEvents : LiveEvent(t, e)
    \/ \E t \in Tasks, e \in ProgrammaticCalls : ProgrammaticAction(t, e)
    \/ Screenshot
    \/ \E t \in Tasks : RecordOperation(t)
    \/ \E t \in Tasks : RecordFallback(t)

Spec == Init /\ [][Next]_vars

\* ------------------------------------------------ the session controller
\* start_recording: the supervisory loop and the finalization that follows.
Capturing == ctl \in {"loop_top", "eval", "nav_sleep"}

\* Mutant: a transient check error goes straight to the next page check.
ResumeAtPageCheck == "eval"

\* Where the loop resumes after the `await asyncio.sleep(1); continue` of a
\* navigation-transient error: at the top of the loop, before the stop flag.
TransientResume == "loop_top"

\* The `await asyncio.sleep(1)` of a navigation-transient error is over.
NavSleepDone ==
    /\ ctl = "nav_sleep"
    /\ ctl' = TransientResume
    /\ UNCHANGED <<stop_recording_flag, recording_interrupted, browser_open,
                   page_open, page_url, page_hash, artifacts, stop_reason,
                   last_check, mon_pc, mon_cancel, mon_url, last_url,
                   consecutive_same_count, html_cache, url_timeline, samples>>
    /\ UNCHANGED <<rvars, fvars, xvars>>

\* The artifacts finalization leaves in the session directory.  The
\* authentication state goes to auth_state_save_path when one was given.
AuthStateFile == "auth_state.json"
SessionFiles == {"metadata.json", "operations.json"}
HtmlSnapshots == "html_snapshots"

\* start_recording up to the launch of the browser.
StartRecording ==
    /\ ctl = "init"
    /\ ctl' = "launching"
    /\ browser_open' = TRUE
    /\ page_open' = TRUE
    /\ UNCHANGED <<stop_recording_flag, recording_interrupted, page_url, page_hash,
                   artifacts, stop_reason, last_check, mon_pc, mon_cancel, mon_url,
                   last_url, consecutive_same_count, html_cache, url_timeline,
                   samples>>
    /\ UNCHANGED <<rvars, attempted, failed, saved_anchor, xvars>>
    /\ entry' = "start_recording"

\* The target page is loaded, the listeners are installed and the HTML monitor
\* task is created; the supervisory loop is entered.
LaunchDone(u, h) ==
    /\ ctl = "launching"
    /\ u # AboutBlank
    /\ ctl' = IF entry = "initialize_recording" THEN "ready" ELSE "loop_top"
    /\ page_url' = u
    /\ page_hash' = h
    /\ mon_pc' = "start"
    /\ UNCHANGED <<stop_recording_flag, recording_interrupted, browser_open,
                   page_open, artifacts, stop_reason, last_check, mon_cancel,
                   mon_url, last_url, consecutive_same_count, html_cache,
                   url_timeline, samples>>
    /\ UNCHANGED <<rvars, fvars, xvars>>

\* chromium.launch or page.goto raises: the exception leaves start_recording
\* through `async with async_playwright()`, which stops the browser.  It leaves
\* initialize_recording with the browser still running.
LaunchFails ==
    /\ ctl = "launching"
    /\ ctl' = "crashed"
    /\ browser_open' = (entry = "initialize_recording")
    /\ page_open' = FALSE
    /\ UNCHANGED <<stop_recording_flag, recording_interrupted, page_url, page_hash,
                   artifacts, stop_reason, last_check, mon_pc, mon_cancel, mon_url,
                   last_url, consecutive_same_count, html_cache, url_timeline,
                   samples>>
    /\ UNCHANGED <<rvars, fvars, xvars>>

\* The top of one loop iteration, up to `await page.evaluate(...)`.
LoopTop ==
    /\ ctl = "loop_top"
    /\ IF stop_recording_flag
       THEN ctl' = "auth" /\ stop_reason' = "stop_flag"
       ELSE IF recording_interrupted
       THEN ctl' = "auth" /\ stop_reason' = "interrupted"
       ELSE IF page_url = AboutBlank
       THEN ctl' = "auth" /\ stop_reason' = "about_blank"
       ELSE ctl' = "eval" /\ UNCHANGED stop_reason
    /\ UNCHANGED <<stop_recording_flag, recording_interrupted, browser_open,
                   page_open, page_url, page_hash, artifacts, last_check, mon_pc,
                   mon_cancel, mon_url, last_url, consecutive_same_count,
                   html_cache, url_timeline, samples>>
    /\ UNCHANGED <<rvars, fvars, xvars>>

\* Mutant: no error of the page check is taken for a navigation in flight.
NothingTransient(o) == FALSE

\* The error text has one of 'navigation', 'destroyed', 'detached'.
IsTransient(o) == o = "transient"

\* `await page.evaluate("document.readyState")` comes back with outcome o, and
\* the iteration runs to its sleep or to the break.  A closed page can only
\* raise an error that is not navigation-transient.
EvalResult(o) ==
    /\ ctl = "eval"
    /\ ~page_open => o = "fatal"
    /\ last_check' = o
    /\ IF IsTransient(o)
       THEN ctl' = "nav_sleep" /\ UNCHANGED stop_reason
       ELSE IF o # "ok"
       THEN ctl' = "auth" /\ stop_reason' = "page_error"
       ELSE IF ~page_open
       THEN ctl' = "auth" /\ stop_reason' = "pages_closed"
       ELSE ctl' = "loop_top" /\ UNCHANGED stop_reason
    /\ UNCHANGED <<stop_recording_flag, recording_interrupted, browser_open,
                   page_open, page_url, page_hash, artifacts, mon_pc, mon_cancel,
                   mon_url, last_url, consecutive_same_count, html_cache,
                   url_timeline, samples>>
    /\ UNCHANGED <<rvars, fvars, xvars>>

\* stop_recording(): callable from outside at any time.
StopRecording ==
    /\ ~stop_recording_flag
    /\ ctl \notin {"closed", "crashed"}
    /\ stop_recording_flag' = TRUE
    /\ UNCHANGED <<ctl, recording_interrupted, browser_open, page_open, page_url,
                   page_hash, artifacts, stop_reason, last_check, mon_pc,
                   mon_cancel, mon_url, last_url, consecutive_same_count,
                   html_cache, url_timeline, samples>>
    /\ UNCHANGED <<rvars, fvars, xvars>>

\* The user navigates, or the page changes its content.
PageChange(u, h) ==
    /\ page_open
    /\ ctl \notin {"init", "launching"}
    /\ u # page_url \/ h # page_hash
    /\ page_url' = u
    /\ page_hash' = h
    /\ UNCHANGED <<ctl, stop_recording_flag, recording_interrupted, browser_open,
                   page_open, artifacts, stop_reason, last_check, mon_pc,
                   mon_cancel, mon_url, last_url, consecutive_same_count,
                   html_cache, url_timeline, samples>>
    /\ UNCHANGED <<rvars, fvars, xvars>>

\* The user closes the page; the browser context stays.
UserClosesPage ==
    /\ page_open
    /\ ctl \notin {"init", "launching"}
    /\ page_open' = FALSE
    /\ UNCHANGED <<ctl, stop_recording_flag, recording_interrupted, browser_open,
                   page_url, page_hash, artifacts, stop_reason, last_check, mon_pc,
                   mon_cancel, mon_url, last_url, consecutive_same_count,
                   html_cache, url_timeline, samples>>
    /\ UNCHANGED <<rvars, fvars, xvars>>

\* The order of the finalization steps: at the end of start_recording, and in
\* finalize_and_save (the entry point used after initialize_recording).
FinalOrder(e) ==
    IF e = "initialize_recording"
    THEN <<"monitor", "await_monitor", "flush", "auth", "html", "session", "close",
           "closed">>
    ELSE <<"auth", "flush", "monitor", "await_monitor", "html", "session", "close",
           "closed">>

\* The steps finalization is made of.
FinalSteps == {"auth", "flush", "monitor", "html", "session", "close"}

\* The position that follows `from` in the order of the entry point.
Successor(from) ==
    LET o == FinalOrder(entry)
        i == CHOOSE k \in 1..(Len(o) - 1) : o[k] = from
    IN o[i + 1]

\* Mutant: a step that raised abandons the rest of finalization.
AbortOnFailure(from, ok) == IF ok THEN Successor(from) ELSE "closed"

\* The position reached after the step at `from`, whether it raised or not:
\* every step is wrapped in its own try/except.
After(from, ok) == Successor(from)

\* One finalization step at position `from`; it adds `written` to the session
\* directory when it does not raise (`ok`).
FinalStepOf(from, written, ok) ==
    /\ ctl = from
    /\ ctl' = After(from, ok)
    /\ artifacts' = artifacts \cup written
    /\ attempted' = attempted \cup ({from} \cap FinalSteps)
    /\ failed' = IF ok THEN failed ELSE failed \cup {from}
    /\ UNCHANGED <<stop_recording_flag, recording_interrupted, page_url, page_hash,
                   stop_reason, last_check, mon_pc, mon_url, last_url,
                   consecutive_same_count, html_cache, url_timeline, samples>>
    /\ UNCHANGED <<entry, xvars>>

\* A finalization step that leaves the recorder's log alone.
FinalStep(from, written, ok) ==
    /\ FinalStepOf(from, written, ok)
    /\ UNCHANGED rvars

\* context.storage_state(path=...) writes the authentication state.
SaveAuthState ==
    /\ FinalStep("auth", {AuthStateFile}, TRUE)
    /\ UNCHANGED <<browser_open, page_open, mon_cancel, saved_anchor>>

\* `if self.pending_input_operations: await self._flush_all_pending_inputs()`
FlushPending ==
    /\ FinalStepOf("flush", {}, TRUE)
    /\ rec' = FlushAllPendingInputs(rec)
    /\ UNCHANGED <<browser_open, page_open, mon_cancel, saved_anchor>>

\* html_monitor_task.cancel(), then `await self.html_monitor_task`.
CancelMonitor ==
    /\ FinalStep("monitor", {}, TRUE)
    /\ mon_cancel' = (mon_pc \notin {"off", "done", "cancelled"})
    /\ UNCHANGED <<browser_open, page_open, saved_anchor>>

\* The awaited monitor task has ended.
AwaitMonitor ==
    /\ mon_pc \in {"off", "done", "cancelled"}
    /\ FinalStep("await_monitor", {}, TRUE)
    /\ UNCHANGED <<browser_open, page_open, mon_cancel, saved_anchor>>

\* _save_html_cache: nothing is written when the cache is empty.
SaveHtmlCache ==
    /\ FinalStep("html", IF DOMAIN html_cache = {} THEN {} ELSE {HtmlSnapshots}, TRUE)
    /\ UNCHANGED <<browser_open, page_open, mon_cancel, saved_anchor>>

\* _build_return_element_data: the anchor written to metadata.json.
ReturnElementData == IF selected_element = None THEN None ELSE selected_element

\* _save_session_data writes metadata.json, then operations.json.
SaveSessionData ==
    /\ FinalStep("session", SessionFiles, TRUE)
    /\ saved_anchor' = ReturnElementData
    /\ UNCHANGED <<browser_open, page_open, mon_cancel>>

\* browser.close().
CloseBrowser ==
    /\ FinalStep("close", {}, TRUE)
    /\ browser_open' = FALSE
    /\ page_open' = FALSE
    /\ UNCHANGED <<mon_cancel, saved_anchor>>

\* ------------------------------------------- faults and the second entry
\* context.storage_state raises (the context is gone): caught and logged.
SaveAuthStateFails ==
    /\ FinalStep("auth", {}, FALSE)
    /\ UNCHANGED <<browser_open, page_open, mon_cancel, saved_anchor>>

\* _save_html_cache raises: caught and logged.
SaveHtmlCacheFails ==
    /\ FinalStep("html", {}, FALSE)
    /\ UNCHANGED <<browser_open, page_open, mon_cancel, saved_anchor>>

\* What _save_session_data has written when the write of `artifact` raises:
\* metadata.json is written first, operations.json second, in one try block.
WrittenBefore(artifact) ==
    IF artifact = "metadata.json" THEN {} ELSE {"metadata.json"}

\* _save_session_data raises while writing `artifact`: caught by the caller.
SaveSessionDataFails(artifact) ==
    /\ FinalStep("session", WrittenBefore(artifact), FALSE)
    /\ saved_anchor' = IF "metadata.json" \in WrittenBefore(artifact)
                       THEN ReturnElementData ELSE saved_anchor
    /\ UNCHANGED <<browser_open, page_open, mon_cancel>>

\* browser.close() raises: ignored.  At the end of start_recording the browser
\* is then stopped by `async with async_playwright()`.
CloseBrowserFails ==
    /\ FinalStep("close", {}, FALSE)
    /\ browser_open' = (browser_open /\ entry = "initialize_recording")
    /\ page_open' = (page_open /\ entry = "initialize_recording")
    /\ UNCHANGED <<mon_cancel, saved_anchor>>

\* The finalization steps that raise.
FinalStepFails ==
    \/ SaveAuthStateFails
    \/ SaveHtmlCacheFails
    \/ \E artifact \in SessionFiles : SaveSessionDataFails(artifact)
    \/ CloseBrowserFails

\* initialize_recording: the launch without the supervisory loop.
InitializeRecording ==
    /\ ctl = "init"
    /\ ctl' = "launching"
    /\ entry' = "initialize_recording"
    /\ browser_open' = TRUE
    /\ page_open' = TRUE
    /\ UNCHANGED <<stop_recording_flag, recording_interrupted, page_url, page_hash,
                   artifacts, stop_reason, last_check, mon_pc, mon_cancel, mon_url,
                   last_url, consecutive_same_count, html_cache, url_timeline,
                   samples>>
    /\ UNCHANGED <<rvars, attempted, failed, saved_anchor, xvars>>

\* finalize_and_save is called on a session launched by initialize_recording.
FinalizeAndSave ==
    /\ ctl = "ready"
    /\ ctl' = FinalOrder(entry)[1]
    /\ UNCHANGED <<stop_recording_flag, recording_interrupted, browser_open,
                   page_open, page_url, page_hash, artifacts, stop_reason,
                   last_check, mon_pc, mon_cancel, mon_url, last_url,
                   consecutive_same_count, html_cache, url_timeline, samples>>
    /\ UNCHANGED <<rvars, fvars, xvars>>

\* The positions of start_recording where a CancelledError is not caught: the
\* awaits of the loop and of the guarded finalization steps (`except Exception`
\* and `except KeyboardInterrupt` let it through).
Cancellable == {"loop_top", "eval", "nav_sleep", "auth", "html", "close"}

\* The task running start_recording is cancelled (or Ctrl+C reaches it as a
\* cancellation): the exception leaves through `async with async_playwright()`.
Cancelled ==
    /\ entry = "start_recording"
    /\ ctl \in Cancellable
    /\ ctl' = "crashed"
    /\ browser_open' = FALSE
    /\ page_open' = FALSE
    /\ UNCHANGED <<stop_recording_flag, recording_interrupted, page_url, page_hash,
                   artifacts, stop_reason, last_check, mon_pc, mon_cancel, mon_url,
                   last_url, consecutive_same_count, html_cache, url_timeline,
                   samples>>
    /\ UNCHANGED <<rvars, fvars, xvars>>

\* KeyboardInterrupt is raised inside the loop body: `except KeyboardInterrupt`.
UserInterrupt ==
    /\ Capturing
    /\ ctl' = "auth"
    /\ recording_interrupted' = TRUE
    /\ stop_reason' = "user_interrupt"
    /\ UNCHANGED <<stop_recording_flag, browser_open, page_open, page_url,
                   page_hash, artifacts, last_check, mon_pc, mon_cancel, mon_url,
                   last_url, consecutive_same_count, html_cache, url_timeline,
                   samples>>
    /\ UNCHANGED <<rvars, fvars, xvars>>

\* ------------------------------------------------------ the HTML monitor
\* _update_html_cache: the entry of the url is overwritten.
UpdateHtmlCache(cache, url, hash, timestamp) ==
    [u \in DOMAIN cache \cup {url} |->
        IF u = url THEN [content_hash |-> hash, last_updated |-> timestamp]
        ELSE cache[u]]

\* _update_html_cache: the timeline grows when its last url differs.
UpdateTimeline(timeline, url) ==
    IF timeline = <<>> \/ timeline[Len(timeline)] # url
    THEN Append(timeline, url) ELSE timeline

\* Mutant: the counter is left as it is after the long sleep.
KeepsCounting(count) == count

\* consecutive_same_count = 8 after `await asyncio.sleep(2.0)`.
AfterSlowSleep(count) == 8

\* `if consecutive_same_count > 10`: the long sleep is taken.
SlowsDown(count) == count > 10

\* The monitor wakes up (after `sleep(2.0)` the counter is reset to 8), tests
\* the loop condition, reads page.url and awaits page.content().  It takes
\* at most `limit` samples.
MonitorReads(limit) ==
    /\ mon_pc \in {"start", "sleep", "sleep2"}
    /\ ~mon_cancel
    /\ samples < limit \/ recording_interrupted
    /\ consecutive_same_count' =
          IF mon_pc = "sleep2" THEN AfterSlowSleep(consecutive_same_count)
          ELSE consecutive_same_count
    /\ IF recording_interrupted
       THEN mon_pc' = "done" /\ UNCHANGED mon_url
       ELSE mon_pc' = "content" /\ mon_url' = page_url
    /\ UNCHANGED <<ctl, stop_recording_flag, recording_interrupted, browser_open,
                   page_open, page_url, page_hash, artifacts, stop_reason,
                   last_check, mon_cancel, last_url, html_cache, url_timeline,
                   samples>>
    /\ UNCHANGED <<rvars, fvars, xvars>>

MonitorRead == MonitorReads(MaxSamples)

\* page.content() comes back (or raises: `raised`), and the sample is taken.
MonitorSample(raised) ==
    /\ mon_pc = "content"
    /\ ~mon_cancel
    /\ ~page_open => raised
    /\ samples' = samples + 1
    /\ IF raised
       THEN /\ mon_pc' = "sleep"
            /\ UNCHANGED <<last_url, consecutive_same_count, html_cache, url_timeline>>
       ELSE IF mon_url # last_url
       THEN /\ consecutive_same_count' = 0
            /\ last_url' = mon_url
            /\ html_cache' = UpdateHtmlCache(html_cache, mon_url, page_hash, samples')
            /\ url_timeline' = UpdateTimeline(url_timeline, mon_url)
            /\ mon_pc' = "sleep"
       ELSE IF mon_url \notin DOMAIN html_cache
               \/ html_cache[mon_url].content_hash # page_hash
       THEN /\ consecutive_same_count' = 0
            /\ html_cache' = UpdateHtmlCache(html_cache, mon_url, page_hash, samples')
            /\ url_timeline' = UpdateTimeline(url_timeline, mon_url)
            /\ mon_pc' = "sleep"
            /\ UNCHANGED last_url
       ELSE /\ consecutive_same_count' = consecutive_same_count + 1
            /\ mon_pc' = IF SlowsDown(consecutive_same_count') THEN "sleep2"
                         ELSE "sleep"
            /\ UNCHANGED <<last_url, html_cache, url_timeline>>
    /\ UNCHANGED <<ctl, stop_recording_flag, recording_interrupted, browser_open,
                   page_open, page_url, page_hash, artifacts, stop_reason,
                   last_check, mon_cancel, mon_url>>
    /\ UNCHANGED <<rvars, fvars, xvars>>

\* The cancelled task gets CancelledError at its suspension point and ends.
MonitorCancelled ==
    /\ mon_cancel
    /\ mon_pc \in {"start", "sleep", "sleep2", "content"}
    /\ mon_pc' = "cancelled"
    /\ UNCHANGED <<ctl, stop_recording_flag, recording_interrupted, browser_open,
                   page_open, page_url, page_hash, artifacts, stop_reason,
                   last_check, mon_cancel, mon_url, last_url,
                   consecutive_same_count, html_cache, url_timeline, samples>>
    /\ UNCHANGED <<rvars, fvars, xvars>>

\* ------------------------------------ the element-selection handlers (host)
\* The artifact _take_selected_element_screenshot writes.
HighlightFile == "selected_element_highlight.png"
\* The selector of the element_selected event.
SelectedSelector == "#result"
\* How the screenshot phase of safe_handle_element_selection ends: the file is
\* written, the screenshot raises (inner except), or the handler raises
\* elsewhere (outer except).
ShotOutcomes == {"ok", "failed", "error"}

\* Mutant: a failed screenshot leaves the handler without the interrupted flag.
GiveUpOnFailure(outcome) == FALSE

\* Every path of safe_handle_element_selection ends with
\* self.recording_interrupted = True.
InterruptsAfter(outcome) == TRUE

\* An element_selected event reaches safe_handle_element_selection: the mode
\* flag and selected_element are set, the highlight screenshot is awaited.
HandleElementSelected ==
    /\ sel_pc = "idle"
    /\ ctl \in {"loop_top", "eval", "nav_sleep", "ready"}
    /\ page_open
    /\ element_selection_mode' = TRUE
    /\ selected_element' = SelectedSelector
    /\ sel_pc' = "shot"
    /\ UNCHANGED <<rvars, cvars, fvars>>

ElementSelected == HandleElementSelected /\ UNCHANGED yvars

\* _take_selected_element_screenshot is over.  After a screenshot the handler
\* sleeps one second; after a failure it sets the interrupted flag at once.
SelectionShot(outcome) ==
    /\ sel_pc = "shot"
    /\ ~page_open => outcome # "ok"
    /\ IF outcome = "ok"
       THEN /\ artifacts' = artifacts \cup {HighlightFile}
            /\ sel_pc' = "sleep"
            /\ UNCHANGED recording_interrupted
       ELSE /\ sel_pc' = "done"
            /\ recording_interrupted' = (recording_interrupted \/ InterruptsAfter(outcome))
            /\ UNCHANGED artifacts
    /\ UNCHANGED <<ctl, stop_recording_flag, browser_open, page_open, page_url,
                   page_hash, stop_reason, last_check, mon_pc, mon_cancel, mon_url,
                   last_url, consecutive_same_count, html_cache, url_timeline,
                   samples>>
    /\ UNCHANGED <<rvars, fvars, element_selection_mode, selected_element, yvars>>

\* The one-second sleep is over: self.recording_interrupted = True.
SelectionSleepDone ==
    /\ sel_pc = "sleep"
    /\ sel_pc' = "done"
    /\ recording_interrupted' = TRUE
    /\ UNCHANGED <<ctl, stop_recording_flag, browser_open, page_open, page_url,
                   page_hash, artifacts, stop_reason, last_check, mon_pc,
                   mon_cancel, mon_url, last_url, consecutive_same_count,
                   html_cache, url_timeline, samples>>
    /\ UNCHANGED <<rvars, fvars, element_selection_mode, selected_element, yvars>>

SelectionStep ==
    \/ \E outcome \in ShotOutcomes : SelectionShot(outcome)
    \/ SelectionSleepDone

\* ------------------------------------------------- the page and its events
\* The injected script of every frame, and the host handlers of its events.
ModeStartEvent == [type |-> "element_selection_mode_start", late |-> FALSE]
SelectedEvent == [type |-> "element_selected", late |-> FALSE]
\* A click event; late tells whether the hotkey had been pressed before it,
\* cancelled whether the selection had been left with Escape, no element
\* chosen, before it.
ClickEvent(late, cancelled) ==
    [type |-> "click", late |-> late, cancelled |-> cancelled]
ClickData == [src |-> "live", type |-> "click", selector |-> ClickSelector,
              value |-> ""]

PageLive == ctl \in {"loop_top", "eval", "nav_sleep", "ready"} /\ page_open

\* __handleSelectionHotkey in frame f: ignored in selection mode; emits
\* element_selection_mode_start, then enableElementSelectionAll switches
\* the frame itself and its same-origin relatives (direct) at once and
\* posts 'enable_selection' to the others.
SelectionHotkey(f, direct) ==
    /\ PageLive
    /\ page.hotkeys < MaxHotkeys
    /\ ~page.frame_mode[f]
    /\ page' = [page EXCEPT
                   !.channel = Append(@, ModeStartEvent),
                   !.frame_mode = [g \in Frames |-> g = f \/ direct \/ @[g]],
                   !.pending_enable = @ \cup (Frames \ {f}),
                   !.hotkeys = @ + 1]
    /\ UNCHANGED <<rvars, cvars, fvars, hvars, evars, zvars>>

\* The message listener of frame g receives 'enable_selection'.
EnableMessage(g) ==
    /\ g \in page.pending_enable
    /\ page' = [page EXCEPT !.pending_enable = @ \ {g}, !.frame_mode[g] = TRUE]
    /\ UNCHANGED <<rvars, cvars, fvars, hvars, evars, zvars>>

\* disableElementSelection: the frame it is called in, and no other.
DisableElementSelection(f) == [page.frame_mode EXCEPT ![f] = FALSE]

\* The user clicks in frame f.  In selection mode handleElementClick emits
\* element_selected for an element other than the body and leaves the mode;
\* outside it the window click capture emits a click event.
PageClick(f, onElement) ==
    /\ PageLive
    /\ page.clicks < MaxClicks
    /\ page' =
           IF page.frame_mode[f]
           THEN IF onElement
                THEN [page EXCEPT !.clicks = @ + 1,
                                  !.channel = Append(@, SelectedEvent),
                                  !.frame_mode = DisableElementSelection(f),
                                  !.selections = @ + 1]
                ELSE [page EXCEPT !.clicks = @ + 1]
           ELSE [page EXCEPT !.clicks = @ + 1,
                             !.channel = Append(@,
                                 ClickEvent(page.hotkeys > 0,
                                            page.escaped /\ page.selections = 0))]
    /\ UNCHANGED <<rvars, cvars, fvars, hvars, evars, zvars>>

\* handleElementSelectionKeydown: Escape leaves the mode in frame f.
Escape(f) ==
    /\ page.frame_mode[f]
    /\ page' = [page EXCEPT !.frame_mode = DisableElementSelection(f),
                            !.escaped = TRUE]
    /\ UNCHANGED <<rvars, cvars, fvars, hvars, evars, zvars>>

\* Whether safe_handle_click returns without recording.
NeverSkips == FALSE
SkipsClick == element_selection_mode

\* Mutant: the handler of the hotkey's event leaves the flag as it is.
ModeLeftAsItIs == element_selection_mode

\* self.element_selection_mode = True of
\* safe_handle_element_selection_mode_start.
ModeAfterStart == TRUE

\* safe_handle_element_selection_mode_start.
HostModeStart ==
    /\ page.channel # <<>>
    /\ Head(page.channel).type = "element_selection_mode_start"
    /\ page' = [page EXCEPT !.channel = Tail(@)]
    /\ element_selection_mode' = ModeAfterStart
    /\ UNCHANGED <<selected_element, sel_pc>>
    /\ UNCHANGED <<rvars, cvars, fvars, evars, zvars>>

\* safe_handle_click for the oldest event of the page.
HostClick(t) ==
    /\ page.channel # <<>>
    /\ Head(page.channel).type = "click"
    /\ IF SkipsClick
       THEN /\ page' = [page EXCEPT
                           !.channel = Tail(@),
                           !.late_click = IF Head(page.channel).late /\ @ = None
                                          THEN "skipped" ELSE @,
                           !.cancel_click =
                               IF Head(page.channel).cancelled /\ @ = None
                               THEN "skipped" ELSE @]
            /\ UNCHANGED rvars
       ELSE /\ HandleLive(t, ClickData)
            /\ page' = [page EXCEPT
                           !.channel = Tail(@),
                           !.late_click = IF Head(page.channel).late
                                          THEN "recorded" ELSE @,
                           !.cancel_click = IF Head(page.channel).cancelled
                                            THEN "recorded" ELSE @]
    /\ UNCHANGED <<cvars, fvars, hvars, evars, zvars>>

\* safe_handle_element_selection for the oldest event of the page; a
\* selection that follows another one sets the same two fields again.
HostElementSelected ==
    /\ page.channel # <<>>
    /\ Head(page.channel).type = "element_selected"
    /\ page' = [page EXCEPT !.channel = Tail(@)]
    /\ IF sel_pc = "idle"
       THEN HandleElementSelected
       ELSE /\ PageLive
            /\ element_selection_mode' = TRUE
            /\ selected_element' = SelectedSelector
            /\ UNCHANGED <<sel_pc, rvars, cvars, fvars>>
    /\ UNCHANGED <<evars, zvars>>

PageStep ==
    \/ \E f \in Frames, direct \in BOOLEAN : SelectionHotkey(f, direct)
    \/ \E g \in Frames : EnableMessage(g)
    \/ \E f \in Frames, onElement \in BOOLEAN : PageClick(f, onElement)
    \/ \E f \in Frames : Escape(f)

HostStep ==
    \/ HostModeStart
    \/ \E t \in Tasks : HostClick(t)
    \/ HostElementSelected

\* ------------------------------------------------- the event transport
\* EventListener.setup_listeners for instance i of one page:
\* expose_function registers __automationEmit unless the page has it already
\* (the error is caught), then check_events_loop is started.
SetupListeners(i, registers) ==
    /\ i \notin transport.setup
    /\ transport' = [transport EXCEPT !.setup = @ \cup {i},
                                      !.exposed = (@ \/ registers)]
    /\ UNCHANGED <<rvars, cvars, fvars, hvars, pvars, zvars>>

\* The injected script emits an event: through __automationEmit when it is a
\* function, the event being marked __delivered and handed to its handler by
\* __automation_emit; and into the queue in every case.
Emit ==
    /\ transport.emitted < MaxEvents
    /\ LET id == transport.emitted + 1
           exposed == transport.exposed
       IN transport' = [transport EXCEPT
              !.emitted = id,
              !.pushed = IF exposed THEN @ \cup {id} ELSE @,
              !.dispatched = IF exposed THEN [@ EXCEPT ![id] = @ + 1] ELSE @,
              !.queue = Append(@, [id |-> id, delivered |-> exposed])]
    /\ UNCHANGED <<rvars, cvars, fvars, hvars, pvars, zvars>>

\* check_events_loop of instance i: window.webAutomationEvents.splice(0).
Drain(i) ==
    /\ i \in transport.setup
    /\ transport.batch[i] = <<>>
    /\ transport.queue # <<>>
    /\ transport' = [transport EXCEPT !.batch[i] = transport.queue,
                                      !.queue = <<>>]
    /\ UNCHANGED <<rvars, cvars, fvars, hvars, pvars, zvars>>

\* Whether the loop passes over a drained event.
SkipsNothing(event) == FALSE
SkipsDelivered(event) == event.delivered

\* check_events_loop of instance i: the next event of the drained batch.
DispatchDrained(i) ==
    /\ transport.batch[i] # <<>>
    /\ LET event == Head(transport.batch[i])
       IN transport' = [transport EXCEPT
              !.batch[i] = Tail(@),
              !.dispatched = IF SkipsDelivered(event) THEN @
                             ELSE [@ EXCEPT ![event.id] = @ + 1]]
    /\ UNCHANGED <<rvars, cvars, fvars, hvars, pvars, zvars>>

\* ------------------------------------------------- the cross-frame locator
\* _compose_cross_frame_xpath.  The returned string is ' -> '.join(segments);
\* it is kept as the list of its segments, each with its prefix and its text.
NoUrl == ""
NoXPath == ""
NoIndex == -1
FrameUrls == {NoUrl, "https://a", "https://b"}
InnerXPaths == {NoXPath, "//div[1]"}
\* One level of frame_trace.chain, as getFrameElementInfo builds it.
Levels == [xpath_in_parent : {NoXPath, "//body[1]/iframe[1]"},
           index : {NoIndex, 0},
           frame_url : FrameUrls]
Chains == UNION {[1..n -> Levels] : n \in 0..MaxDepth}
FrameTraces == [chain : Chains, current_frame_url : FrameUrls]

PageSeg(url) == [kind |-> "PAGE:", text |-> url]
UrlSeg(url) == [kind |-> "URL:", text |-> url]
PathSeg(xpath) == [kind |-> "", text |-> xpath]

\* f"//{tag}[{index + 1}]" or f"//{tag}" for the default tag.
IndexedFrame(index) == IF index = NoIndex THEN "//iframe" ELSE "//iframe[1]"

\* The segments one level of the chain appends.
LevelSegments(level) ==
    <<PathSeg(IF level.xpath_in_parent # NoXPath
              THEN level.xpath_in_parent
              ELSE IndexedFrame(level.index))>>
    \o (IF level.frame_url # NoUrl THEN <<UrlSeg(level.frame_url)>> ELSE <<>>)

RECURSIVE ChainSegments(_)
ChainSegments(chain) ==
    IF chain = <<>> THEN <<>>
    ELSE LevelSegments(Head(chain)) \o ChainSegments(Tail(chain))

\* The segments before the final pass over the leading pair.
Segments(frame_trace, inner_xpath, top_page_url) ==
    (IF top_page_url # NoUrl THEN <<PageSeg(top_page_url)>> ELSE <<>>)
    \o ChainSegments(frame_trace.chain)
    \o (IF frame_trace.chain # <<>> /\ frame_trace.current_frame_url # NoUrl
        THEN <<UrlSeg(frame_trace.current_frame_url)>> ELSE <<>>)
    \o (IF inner_xpath # NoXPath THEN <<PathSeg(inner_xpath)>> ELSE <<>>)

\* segments.pop(1) when segments[0] is PAGE:u and segments[1] is URL:u.
DropLeadingDuplicate(segments) ==
    IF /\ Len(segments) >= 2
       /\ segments[1].kind = "PAGE:"
       /\ segments[2].kind = "URL:"
       /\ segments[1].text = segments[2].text
    THEN <<segments[1]>> \o SubSeq(segments, 3, Len(segments))
    ELSE segments

ComposeCrossFrameXPath(frame_trace, inner_xpath, top_page_url) ==
    DropLeadingDuplicate(Segments(frame_trace, inner_xpath, top_page_url))

\* One call of the composition; the recorder makes it for every operation.
Compose(frame_trace, inner_xpath, top_page_url) ==
    /\ composed' =
           [args |-> [called |-> TRUE, frame_trace |-> frame_trace,
                      inner_xpath |-> inner_xpath, top_page_url |-> top_page_url],
            result |-> ComposeCrossFrameXPath(frame_trace, inner_xpath, top_page_url)]
    /\ UNCHANGED <<rvars, cvars, fvars, hvars, pvars, evars, svars, ovars, avars, mvars>>

\* ------------------------------------------------- the highlighter
\* _take_highlighted_screenshot for a selector, one action per await.  An
\* evaluate that timed out or failed may or may not have run in the page.
AwaitOutcomes == {"ok", "timeout", "error"}
Effect(outcome, applied) == outcome = "ok" \/ applied
NotHighlighter == <<rvars, cvars, fvars, hvars, pvars, evars, lvars, ovars, avars, mvars>>

\* The call, up to the first evaluate under the screenshot lock.
HighlightCall ==
    /\ hl.pc \in {"idle", "done", "cancelled"}
    /\ hl.calls < MaxCalls
    /\ hl' = [hl EXCEPT !.calls = @ + 1, !.pc = "probe", !.probe = None,
                        !.element_exists = FALSE, !.shot_file = FALSE,
                        !.capture_failures = 0]
    /\ UNCHANGED NotHighlighter

\* element_exists: the probe found the element, and only then.
AssumeExists(outcome, matches) == TRUE
ElementExists(outcome, matches) == outcome = "ok" /\ matches

\* The readyState check and the existence probe are over.
Probe(outcome, matches) ==
    /\ hl.pc = "probe"
    /\ hl' = [hl EXCEPT
                 !.probe = IF outcome # "ok" THEN outcome
                           ELSE IF matches THEN "found" ELSE "absent",
                 !.element_exists = ElementExists(outcome, matches),
                 !.pc = IF ElementExists(outcome, matches) THEN "inject"
                        ELSE "capture"]
    /\ UNCHANGED NotHighlighter

\* The injection: styling of the element and the frame's info box, both
\* only when the selector matches.
Inject(outcome, applied) ==
    /\ hl.pc = "inject"
    /\ hl' = [hl EXCEPT
                 !.pc = "unbox",
                 !.styled = (@ \/ (Effect(outcome, applied) /\ hl.probe = "found")),
                 !.frame_box = (@ \/ (Effect(outcome, applied) /\ hl.probe = "found"))]
    /\ UNCHANGED NotHighlighter

\* The frame's info box is removed again, unless the evaluate fails.
RemoveFrameBox(removed) ==
    /\ hl.pc = "unbox"
    /\ hl' = [hl EXCEPT !.pc = "topbox", !.frame_box = (@ /\ ~removed)]
    /\ UNCHANGED NotHighlighter

\* The rectangle and details are read, the top-level info box is created.
TopBox(outcome, applied) ==
    /\ hl.pc = "topbox"
    /\ hl' = [hl EXCEPT !.pc = "sleep", !.top_box = (@ \/ Effect(outcome, applied))]
    /\ UNCHANGED NotHighlighter

\* await asyncio.sleep(0.7)
HighlightSleepDone ==
    /\ hl.pc = "sleep"
    /\ hl' = [hl EXCEPT !.pc = "capture"]
    /\ UNCHANGED NotHighlighter

\* page_obj.screenshot within 3 s; a failure is logged and the call goes on.
Capture(outcome) ==
    /\ hl.pc = "capture"
    /\ hl' = [hl EXCEPT
                 !.pc = IF hl.element_exists THEN "cleanup" ELSE "plain",
                 !.shot_file = (@ \/ outcome = "ok"),
                 !.capture_failures = IF outcome = "ok" THEN @ ELSE @ + 1]
    /\ UNCHANGED NotHighlighter

\* The cleanup in the frame: styling and info box, within 1 s.
Cleanup(outcome, applied) ==
    /\ hl.pc = "cleanup"
    /\ hl' = [hl EXCEPT
                 !.pc = "topclean",
                 !.styled = (@ /\ ~Effect(outcome, applied)),
                 !.frame_box = (@ /\ ~Effect(outcome, applied))]
    /\ UNCHANGED NotHighlighter

\* The cleanup of the top-level info box; a failure is swallowed.
TopClean(removed) ==
    /\ hl.pc = "topclean"
    /\ hl' = [hl EXCEPT !.pc = "done", !.top_box = (@ /\ ~removed)]
    /\ UNCHANGED NotHighlighter

\* Without an element: a second, plain page_obj.screenshot within 3 s.
PlainCapture(outcome) ==
    /\ hl.pc = "plain"
    /\ hl' = [hl EXCEPT
                 !.pc = "done",
                 !.shot_file = (@ \/ outcome = "ok"),
                 !.capture_failures = IF outcome = "ok" THEN @ ELSE @ + 1]
    /\ UNCHANGED NotHighlighter

\* The 10 s wait_for of _record_operation_core cancels the call at an
\* await: CancelledError passes the except clauses, only finally runs.
HighlightAwaits == {"probe", "inject", "unbox", "topbox", "sleep", "capture",
                    "cleanup", "topclean", "plain"}

HighlightCancelled ==
    /\ hl.pc \in HighlightAwaits
    /\ hl' = [hl EXCEPT !.pc = "cancelled"]
    /\ UNCHANGED NotHighlighter

\* ------------------------------------------------- the initialization overlay
\* The listener setup of start_recording and of initialize_recording, with
\* the overlay the init script puts over the page.
EntryPoints == {"start_recording", "initialize_recording"}
NotOverlay == <<rvars, cvars, fvars, hvars, pvars, evars, lvars, svars, avars, mvars>>

\* The page was opened: the init script shows the overlay, and the entry
\* point calls _setup_event_listeners.
SetupEventListeners(e) ==
    /\ ov.pc \in {"idle", "capturing"}
    /\ ov.sessions < MaxSessions
    /\ ov' = [entry |-> e, pc |-> "setup", overlay_up |-> TRUE,
              init_done |-> FALSE, removal_attempted |-> FALSE,
              setup_result |-> None, sessions |-> ov.sessions + 1]
    /\ UNCHANGED NotOverlay

\* Where the entry point goes when _setup_event_listeners raises: only
\* start_recording evaluates __automationHideOverlay.
HidesOnFailure(e) == e = "start_recording"

\* setup_listeners raises before its verification (no page, or the
\* verification of the injected script fails).
SetupRaises ==
    /\ ov.pc = "setup"
    /\ ov' = [ov EXCEPT !.setup_result = "raises",
                        !.pc = IF HidesOnFailure(ov.entry) THEN "hide"
                               ELSE "capturing"]
    /\ UNCHANGED NotOverlay

\* The binding is exposed (or not), the polling loop is started and the
\* setup waits for the DOM.
SetupGoesOn ==
    /\ ov.pc = "setup"
    /\ ov' = [ov EXCEPT !.pc = "dom_wait"]
    /\ UNCHANGED NotOverlay

\* wait_for_load_state('domcontentloaded', timeout=10000): a timeout is
\* logged and setup_listeners returns.
DomWait(loaded) ==
    /\ ov.pc = "dom_wait"
    /\ ov' = IF loaded
             THEN [ov EXCEPT !.pc = "js_check"]
             ELSE [ov EXCEPT !.pc = "capturing", !.setup_result = "dom_timeout"]
    /\ UNCHANGED NotOverlay

\* The check of the injected script: ready, not ready, or the evaluate fails;
\* each branch calls recorder.remove_initialization_overlay().
JsOutcomes == {"ready", "not_ready", "check_failed"}

JsCheck(outcome) ==
    /\ ov.pc = "js_check"
    /\ ov' = [ov EXCEPT !.setup_result = outcome, !.pc = "remove"]
    /\ UNCHANGED NotOverlay

\* window.__automationHideOverlay() is evaluated; a failure is logged.  The
\* function removes the overlay and sets the session storage flag, unless
\* the storage refuses.
RemoveInitializationOverlay(removed, stored) ==
    /\ ov.pc \in {"remove", "hide"}
    /\ ov' = [ov EXCEPT !.removal_attempted = TRUE,
                        !.overlay_up = (@ /\ ~removed),
                        !.init_done = (@ \/ (removed /\ stored)),
                        !.pc = "capturing"]
    /\ UNCHANGED NotOverlay

\* The page loads a new document: the init script shows the overlay again
\* unless the session storage says the initialization is done.
NewDocument ==
    /\ ov.pc # "idle"
    /\ ov' = [ov EXCEPT !.overlay_up = ~ov.init_done]
    /\ UNCHANGED NotOverlay

\* ------------------------------------------------- the session manager
NotStore == <<rvars, cvars, fvars, hvars, pvars, evars, lvars, svars, ovars, avars>>

\* start_recording / initialize_recording: session_dir.mkdir(...)
CreateSessionDir(s) ==
    /\ s \notin store.session_dirs
    /\ store' = [store EXCEPT !.session_dirs = @ \cup {s}]
    /\ UNCHANGED NotStore

\* The finalization step before _save_session:
\* context.storage_state(path=session_dir / 'auth_state.json').
WriteAuthState(s) ==
    /\ s \in store.session_dirs
    /\ s \notin store.auth_state
    /\ store.metadata_json[s].state = "absent"
    /\ store' = [store EXCEPT !.auth_state = @ \cup {s}]
    /\ UNCHANGED NotStore

\* _save_session with n operations in self.operations: metadata.json is
\* written, then operations.json.  A write that raises leaves its file
\* truncated and ends the function.
SaveFaults == {"none", "metadata", "operations"}

SaveSession(s, fault, n) ==
    /\ s \in store.session_dirs
    /\ store.metadata_json[s].state = "absent"
    /\ store' = [store EXCEPT
                    !.metadata_json[s] =
                        IF fault = "metadata" THEN Corrupt ELSE Ok(Placeholder),
                    !.operations_json[s] =
                        CASE fault = "metadata" -> Absent
                          [] fault = "operations" -> Corrupt
                          [] OTHER -> Ok(Placeholder),
                    !.recorded[s] = IF fault = "none" THEN n ELSE 0]
    /\ UNCHANGED NotStore

\* load_session on the files as they are.
LoadSession(s) ==
    IF \/ s \notin store.session_dirs
       \/ store.metadata_json[s].state # "ok"
       \/ store.operations_json[s].state = "corrupt"
       \/ store.analysis_json[s].state = "corrupt"
    THEN [found |-> FALSE, ai_analysis |-> JsonLoad(Placeholder)]
    ELSE [found |-> TRUE,
          ai_analysis |-> IF store.analysis_json[s].state = "ok"
                          THEN JsonLoad(store.analysis_json[s].text)
                          ELSE JsonLoad(store.metadata_json[s].text)]

LoadSessionCall(s) ==
    /\ store' = [store EXCEPT !.sm_call =
                    [op |-> "load_session", session |-> s, returned |-> FALSE,
                     found |-> LoadSession(s).found,
                     ai_analysis |-> LoadSession(s).ai_analysis,
                     arg |-> JsonLoad(Placeholder),
                     code |-> FALSE, error |-> None,
                     listing |-> NoCall.listing]]
    /\ UNCHANGED NotStore

\* save_analysis(s, a); `written` and `updated` say whether the write of
\* ai_analysis.json and the rewrite of metadata.json went through.
SaveAnalysis(s, a, written, updated) ==
    LET result(ok) == [op |-> "save_analysis", session |-> s, returned |-> ok,
                       found |-> FALSE, ai_analysis |-> JsonLoad(Placeholder),
                       arg |-> a, code |-> FALSE, error |-> None,
                       listing |-> NoCall.listing]
        stamped == Stamp(a)
    IN  /\ store' =
               IF s \notin store.session_dirs
               THEN [store EXCEPT !.sm_call = result(FALSE)]
               ELSE IF ~Serializable(stamped) \/ ~written
               THEN [store EXCEPT !.analysis_json[s] = Corrupt,
                                  !.sm_call = result(FALSE)]
               ELSE CASE store.metadata_json[s].state = "absent" ->
                             [store EXCEPT !.analysis_json[s] = Ok(JsonDump(stamped)),
                                           !.sm_call = result(TRUE)]
                      [] store.metadata_json[s].state = "corrupt" ->
                             [store EXCEPT !.analysis_json[s] = Ok(JsonDump(stamped)),
                                           !.sm_call = result(FALSE)]
                      [] OTHER ->
                             [store EXCEPT !.analysis_json[s] = Ok(JsonDump(stamped)),
                                           !.metadata_json[s] =
                                               IF updated THEN Ok(JsonDump(stamped))
                                               ELSE Corrupt,
                                           !.sm_call = result(updated)]
        /\ UNCHANGED NotStore

\* `if not analysis.get('analyzed')` of generate_function, negated.
\* Mutant: whatever analysis the session carries counts as done.
AnyAnalysis(analysis) == TRUE

Analyzed(analysis) == analysis.analyzed

\* generate_function(s): ValueError when load_session gives nothing or the
\* analysis is not marked analyzed, else the function code.  `keyed` says
\* whether every operation and every suggested parameter has the keys the
\* generator indexes (operation['action'], operation['selector'],
\* param['name']); a missing one raises KeyError.
GenerateFunction(s, keyed) ==
    LET session_data == LoadSession(s)
        result(code, error) ==
            [op |-> "generate_function", session |-> s, returned |-> code,
             found |-> session_data.found,
             ai_analysis |-> session_data.ai_analysis,
             arg |-> JsonLoad(Placeholder), code |-> code, error |-> error,
             listing |-> NoCall.listing]
    IN  /\ store' = [store EXCEPT !.sm_call =
                        IF ~session_data.found THEN result(FALSE, "ValueError")
                        ELSE IF ~Analyzed(session_data.ai_analysis)
                        THEN result(FALSE, "ValueError")
                        ELSE IF ~keyed THEN result(FALSE, "KeyError")
                        ELSE result(TRUE, None)]
        /\ UNCHANGED NotStore

\* The top-level keys of the dict _save_session dumps into metadata.json;
\* save_analysis reads the dict back and sets its 'ai_analysis' only.
MetadataKeys ==
    {"session_id", "timestamp", "metadata", "statistics",
     "return_reference_element", "ai_analysis"}

\* len(metadata.get('operations', [])) for the metadata.json of s.
MetadataOperations(s) ==
    IF "operations" \in MetadataKeys THEN store.recorded[s] ELSE 0

\* _determine_session_status for a session whose metadata.json was read.
DetermineSessionStatus(s) ==
    IF s \notin store.auth_state THEN "incomplete"
    ELSE IF Analyzed(store.metadata_json[s].text) THEN "analyzed"
    ELSE IF MetadataOperations(s) > 0 THEN "recorded"
    ELSE "empty"

\* The entry list_sessions builds for s: none for a directory without a
\* readable metadata.json.
ListEntry(s) ==
    IF s \in store.session_dirs /\ store.metadata_json[s].state = "ok"
    THEN [listed |-> TRUE, status |-> DetermineSessionStatus(s),
          operations_count |-> MetadataOperations(s),
          analyzed |-> Analyzed(store.metadata_json[s].text)]
    ELSE NoEntry

ListSessions ==
    /\ store' = [store EXCEPT !.sm_call =
                    [NoCall EXCEPT !.op = "list_sessions",
                                   !.listing = [s \in SessionIds |-> ListEntry(s)]]]
    /\ UNCHANGED NotStore

NextStore ==
    \/ ListSessions
    \/ \E s \in SessionIds : CreateSessionDir(s)
    \/ \E s \in SessionIds : WriteAuthState(s)
    \/ \E s \in SessionIds, fault \in SaveFaults, n \in 0..MaxRecorded :
           SaveSession(s, fault, n)
    \/ \E s \in SessionIds, keyed \in BOOLEAN : GenerateFunction(s, keyed)
    \/ \E s \in SessionIds : LoadSessionCall(s)
    \/ \E s \in SessionIds, a \in Analyses, written, updated \in BOOLEAN :
           SaveAnalysis(s, a, written, updated)

SpecStore == Init /\ [][NextStore]_vars

\* ------------------------------------------------- the provider
\* key.startswith(session_name)
StartsWith(key, name) ==
    Len(key) >= Len(name) /\ SubSeq(key, 1, Len(name)) = name

\* unique_session_name of _get_recording_instance: the name itself when a
\* session_path is given with it, else the name and a timestamp.
UniqueSessionName(name, with_path) ==
    IF with_path THEN name ELSE Append(name, Timestamp)

\* self._active_sessions[unique_session_name] = session_info: a new key goes
\* to the end of the dict, a key already there keeps its place.
Register(active, key) ==
    IF \E i \in 1..Len(active) : active[i] = key THEN active
    ELSE Append(active, key)

\* _get_recording_instance(session_name, ..., session_path, ...)
GetRecordingInstance(name, with_path) ==
    /\ Len(store.provider.active) < MaxInstances
    /\ store' = [store EXCEPT !.provider.active =
                    Register(@, UniqueSessionName(name, with_path))]
    /\ UNCHANGED NotStore

\* The loop of finalize_recording: the index of the first key of
\* _active_sessions that matches, 0 when none does.
MatchingSession(active, name) ==
    IF \E i \in 1..Len(active) : StartsWith(active[i], name)
    THEN CHOOSE i \in 1..Len(active) :
             /\ StartsWith(active[i], name)
             /\ \A j \in 1..(i - 1) : ~StartsWith(active[j], name)
    ELSE 0

\* finalize_recording(session_name): the recorder of the matching session
\* is stopped and finalized and its key deleted; when that raises (~ok) the
\* key stays.
FinalizeRecording(name, ok) ==
    LET active == store.provider.active
        i == MatchingSession(active, name)
    IN  /\ store' =
               IF i = 0
               THEN [store EXCEPT !.provider.last =
                        [name |-> name, key |-> <<>>, success |-> FALSE]]
               ELSE [store EXCEPT
                        !.provider.finalized = @ \cup {active[i]},
                        !.provider.active = IF ok THEN SeqRemoveAt(@, i) ELSE @,
                        !.provider.last =
                            [name |-> name, key |-> active[i], success |-> ok]]
        /\ UNCHANGED NotStore

NextProvider ==
    \/ \E name \in SessionNames, with_path \in BOOLEAN :
           GetRecordingInstance(name, with_path)
    \/ \E name \in SessionNames, ok \in BOOLEAN : FinalizeRecording(name, ok)

SpecProvider == Init /\ [][NextProvider]_vars

\* ------------------------------------------------- the AI analysis
\* trigger_ai_analysis is called.
TriggerAiAnalysis ==
    /\ store.ai.pc = "idle"
    /\ store' = [store EXCEPT !.ai.pc = "attempt", !.ai.attempt = 1]
    /\ UNCHANGED NotStore

\* What call_user_ai_analysis returns once the loop is over without a
\* function: the failed_analysis_function template, as a string.
ErrorFunction == "template"

\* One turn of the loop of call_user_ai_analysis: launch_agent, the wait for
\* .result, and what the files say.  The function code is returned at
\* once; any other outcome goes to the next attempt, and after the last one
\* the error template is returned.  trigger_ai_analysis then writes the code
\* to save_function_path when one is given (`saved` says the write went
\* through) and returns.
AgentAttempt(outcome, saved) ==
    /\ store.ai.pc = "attempt"
    /\ LET history == Append(store.ai.history, outcome)
           returns(code) ==
               [store EXCEPT !.ai = [pc |-> "returned", attempt |-> @.attempt,
                                     history |-> history, success |-> saved,
                                     code |-> IF saved THEN code ELSE None]]
       IN  store' =
               IF outcome = "function" THEN returns("function")
               ELSE IF store.ai.attempt < max_attempts
               THEN [store EXCEPT !.ai.attempt = @ + 1, !.ai.history = history]
               ELSE returns(ErrorFunction)
    /\ UNCHANGED NotStore

NextAnalysis ==
    \/ TriggerAiAnalysis
    \/ \E outcome \in AttemptOutcomes, saved \in BOOLEAN :
           AgentAttempt(outcome, saved)

SpecAnalysis == Init /\ [][NextAnalysis]_vars

\* ------------------------------------------------- the controller's spec
\* The steps of start_recording once it was called.
ControllerStep ==
    \/ \E u \in Urls, h \in Hashes : LaunchDone(u, h)
    \/ LaunchFails
    \/ LoopTop
    \/ \E o \in CheckOutcomes : EvalResult(o)
    \/ NavSleepDone
    \/ SaveAuthState
    \/ FlushPending
    \/ CancelMonitor
    \/ AwaitMonitor
    \/ SaveHtmlCache
    \/ SaveSessionData
    \/ CloseBrowser

MonitorStep ==
    \/ MonitorRead
    \/ \E raised \in BOOLEAN : MonitorSample(raised)
    \/ MonitorCancelled

NextCtl ==
    \/ StartRecording
    \/ ControllerStep
    \/ MonitorStep
    \/ StopRecording
    \/ \E u \in Urls, h \in Hashes : PageChange(u, h)
    \/ UserClosesPage

\* The event loop keeps running the tasks that are ready: every await of the
\* controller and of the monitor comes back.
SpecCtl == Init /\ [][NextCtl]_vars /\ WF_vars(ControllerStep) /\ WF_vars(MonitorStep)

\* The monitor of a session that goes on for a long time, while the user
\* navigates and the page changes its content.
NextMonitor ==
    \/ StartRecording
    \/ \E u \in Urls, h \in Hashes : LaunchDone(u, h)
    \/ MonitorReads(MaxTicks)
    \/ \E raised \in BOOLEAN : MonitorSample(raised)
    \/ \E u \in Urls, h \in Hashes : PageChange(u, h)

SpecMonitor == Init /\ [][NextMonitor]_vars

\* What the user does in the page of a session: a click, and typing into
\* one field.
SessionEvents == {ClickData} \cup UserInputs

\* An event of the page reaches its handler while the session is capturing.
SessionEvent(t, e) ==
    /\ Capturing
    /\ page_open
    /\ LiveEvent(t, e)

\* The highlighted screenshot of a handler: it succeeds as long as the page
\* is open.
SessionScreenshot(t) == TakeScreenshot(t, page_open, page_open)

\* One session of start_recording with the handlers of its events: the
\* controller, the monitor's end and the handler tasks share the event loop.
NextSession ==
    \/ StartRecording
    \/ LaunchDone("https://a", "h1")
    \/ LoopTop
    \/ EvalResult("ok")
    \/ StopRecording
    \/ SaveAuthState
    \/ FlushPending
    \/ CancelMonitor
    \/ MonitorCancelled
    \/ AwaitMonitor
    \/ SaveHtmlCache
    \/ SaveSessionData
    \/ CloseBrowser
    \/ \E t \in Tasks, e \in SessionEvents : SessionEvent(t, e)
    \/ \E t \in Tasks : SessionScreenshot(t)
    \/ \E t \in Tasks : RecordOperation(t)

SpecSession == Init /\ [][NextSession]_vars

\* The session in which the user may select the return element; the pages
\* the user visits keep their content.
NextReturn ==
    \/ StartRecording
    \/ ControllerStep
    \/ MonitorStep
    \/ StopRecording
    \/ \E u \in Urls : PageChange(u, page_hash)
    \/ UserClosesPage
    \/ ElementSelected
    \/ SelectionStep

SpecReturn ==
    /\ Init /\ [][NextReturn]_vars
    /\ WF_vars(ControllerStep) /\ WF_vars(MonitorStep) /\ WF_vars(SelectionStep)

\* The page of a launched session, its frames and the handlers of its
\* events, with the recorder behind safe_handle_click.
NextSelect ==
    \/ StartRecording
    \/ LaunchDone("https://a", "h1")
    \/ PageStep
    \/ HostStep
    \/ \E t \in Tasks : TakeScreenshot(t, TRUE, TRUE)
    \/ \E t \in Tasks : RecordOperation(t)

SpecSelect == Init /\ [][NextSelect]_vars

\* One popup page, its two listener instances and the events it emits.
NextEvents ==
    \/ \E i \in Listeners, registers \in BOOLEAN : SetupListeners(i, registers)
    \/ Emit
    \/ \E i \in Listeners : Drain(i)
    \/ \E i \in Listeners : DispatchDrained(i)

SpecEvents == Init /\ [][NextEvents]_vars

\* The calls of the locator composition.
NextCompose ==
    \E frame_trace \in FrameTraces, inner_xpath \in InnerXPaths,
       top_page_url \in FrameUrls :
        Compose(frame_trace, inner_xpath, top_page_url)

SpecCompose == Init /\ [][NextCompose]_vars

\* The calls of the highlighter, with the outcomes of its awaits.
NextShot ==
    \/ HighlightCall
    \/ \E outcome \in AwaitOutcomes, matches \in BOOLEAN : Probe(outcome, matches)
    \/ \E outcome \in AwaitOutcomes, applied \in BOOLEAN : Inject(outcome, applied)
    \/ \E removed \in BOOLEAN : RemoveFrameBox(removed)
    \/ \E outcome \in AwaitOutcomes, applied \in BOOLEAN : TopBox(outcome, applied)
    \/ HighlightSleepDone
    \/ \E outcome \in AwaitOutcomes : Capture(outcome)
    \/ \E outcome \in AwaitOutcomes, applied \in BOOLEAN : Cleanup(outcome, applied)
    \/ \E removed \in BOOLEAN : TopClean(removed)
    \/ \E outcome \in AwaitOutcomes : PlainCapture(outcome)
    \/ HighlightCancelled

SpecShot == Init /\ [][NextShot]_vars

\* The listener setup of the sessions of one recorder.
NextOverlay ==
    \/ \E e \in EntryPoints : SetupEventListeners(e)
    \/ SetupRaises
    \/ SetupGoesOn
    \/ \E loaded \in BOOLEAN : DomWait(loaded)
    \/ \E outcome \in JsOutcomes : JsCheck(outcome)
    \/ \E removed, stored \in BOOLEAN : RemoveInitializationOverlay(removed, stored)
    \/ NewDocument

SpecOverlay == Init /\ [][NextOverlay]_vars

\* The session with both entry points and with its faults: failing launches,
\* failing finalization steps, cancellation and Ctrl+C.
NextFaults ==
    \/ StartRecording
    \/ InitializeRecording
    \/ ControllerStep
    \/ FinalizeAndSave
    \/ FinalStepFails
    \/ Cancelled
    \/ UserInterrupt
    \/ MonitorStep
    \/ StopRecording
    \/ \E u \in Urls, h \in Hashes : PageChange(u, h)
    \/ UserClosesPage

SpecFaults == Init /\ [][NextFaults]_vars

\* ------------------------------------------------------------ claims
AllDone == \A t \in Tasks : rec.pc[t] \in {"idle", "done"}

\* The live input handlers that were started for selector s.
InputTasks(s) ==
    {t \in Tasks : rec.pc[t] # "idle" /\ rec.ev[t].src = "live" /\ rec.ev[t].type = "input"
                   /\ rec.ev[t].selector = s}

\* The last of them in arrival order (step_ids are handed out on arrival).
LastInputTask(s) ==
    CHOOSE t \in InputTasks(s) : \A u \in InputTasks(s) : rec.sid[u] <= rec.sid[t]

\* The positions of the log that hold an input operation for selector s.
InputOps(s) ==
    {i \in 1..Len(rec.operations) :
         rec.operations[i].action = "input" /\ rec.operations[i].selector = s}

C2_AtMostOneInputPerSelector ==
    \A s \in InputSelectors : Cardinality(InputOps(s)) <= 1

\* An input on #q has replaced an earlier one while another handler is in the
\* middle of its screenshot.
C2_Witness ==
    /\ rec.superseded # {}
    /\ InputOps("#q") # {}
    /\ \E t \in Tasks : rec.pc[t] = "shot"

\* C3: the screenshot file of every superseded input operation is gone, also
\* when its capture timed out or was reported as failed.
C3_SupersededScreenshotsGone == rec.superseded \cap rec.files = {}

\* The operation at position i of the log was recorded for an input on s.
RecordedForInput(i, s) ==
    /\ rec.operations[i].action = "input"
    /\ rec.ev[rec.op_task[i]].selector = s

\* C4: recording an input event for selector s removes from the log at most the
\* previously surviving input operation for s; every other operation stays, in
\* the same relative order.
C4_InputRemovesOnlyPreviousInput ==
    [][\A t \in Tasks :
          (rec.pc[t] = "ctx" /\ rec'.pc[t] = "done" /\ UsesReplacement(rec.ev[t])) =>
              LET rest == SubSeq(rec'.operations, 1, Len(rec'.operations) - 1)
              IN \/ rest = rec.operations
                 \/ \E i \in 1..Len(rec.operations) :
                        /\ RecordedForInput(i, rec.ev[t].selector)
                        /\ rest = SeqRemoveAt(rec.operations, i)]_vars

\* C5: no two operations of the log share a step_id.
C5_UniqueStepIds ==
    \A i, j \in 1..Len(rec.operations) :
        i # j => rec.operations[i].step_id # rec.operations[j].step_id

\* C6: in a live recording the step_ids of the log, read in log order, are
\* strictly increasing.
C6_StepIdsIncreaseInLogOrder ==
    \A i, j \in 1..Len(rec.operations) :
        i < j => rec.operations[i].step_id < rec.operations[j].step_id

\* Two operations are in the log after three handlers queued for the gate and
\* one input was replaced.
C6_Witness ==
    /\ Len(rec.operations) = 2
    /\ rec.superseded # {}
    /\ Len(rec.gate_order) = 3

\* Position of task t in the order of gate acquisitions.
GatePosition(t) == CHOOSE k \in 1..Len(rec.gate_order) : rec.gate_order[k] = t

\* C7: the operations of the log are in the order in which their handlers
\* acquired the gate.
C7_LogOrderIsGateOrder ==
    \A i, j \in 1..Len(rec.operations) :
        i < j => GatePosition(rec.op_task[i]) < GatePosition(rec.op_task[j])

\* A live event and a programmatic call both sit in the log while a third
\* handler, an input that will replace an earlier one, holds the gate.
C7_Witness ==
    /\ Len(rec.operations) >= 2
    /\ \E i, j \in 1..Len(rec.operations) :
          /\ rec.ev[rec.op_task[i]].src = "live"
          /\ rec.ev[rec.op_task[j]].src = "prog"
    /\ \E t \in Tasks : rec.pc[t] = "shot" /\ rec.prev[t] # NoStep

\* C8: at most one task holds the gate, and the log and the last-recorded-input
\* map change only in a step of the task that holds it.
C8_MutationOnlyUnderTheGate ==
    /\ [](Cardinality(Holders) <= 1)
    /\ [][(rec'.operations # rec.operations \/ rec'.last_input_by_selector # rec.last_input_by_selector) =>
             \E t \in Holders : rec'.pc[t] = "done" /\ Holders = {t}]_vars

\* A holder is about to append to a non-empty log while another task waits
\* for the gate.
C8_Witness ==
    /\ \E t \in Tasks : rec.pc[t] = "ctx"
    /\ Len(rec.sem_waiters) = 1
    /\ rec.operations # <<>>
    /\ rec.last_input_by_selector # <<>>

\* C9: a handler that was given a step_id and has completed has appended exactly
\* one operation, carrying that step_id; one that has not completed has
\* appended none.
C9_ExactlyOneOperationPerEvent ==
    \A t \in Tasks :
        /\ rec.pc[t] = "done" => rec.appended[t] = <<rec.sid[t]>>
        /\ rec.pc[t] # "done" => rec.appended[t] = <<>>

\* A handler has completed through the except branch: its fallback operation is
\* in the log next to a full one.
C9_Witness ==
    /\ \E i \in 1..Len(rec.operations) : rec.operations[i].error
    /\ \E i \in 1..Len(rec.operations) : ~rec.operations[i].error
    /\ \E t \in Tasks : rec.pc[t] = "done" /\ rec.ev[t].type = "input"

\* C10: once stop_recording() was called while the session is capturing, the
\* supervisory loop is eventually left and finalization completes: metadata.json,
\* operations.json and the authentication state are written and the browser is
\* closed, whatever the page-liveness checks do in the meantime.
Finalized ==
    /\ ctl = "closed"
    /\ ~browser_open
    /\ SessionFiles \cup {AuthStateFile} \subseteq artifacts

SessionOver == ctl \in {"closed", "crashed"}

C11_ClosedOnlyAfterFinalizing ==
    (SessionOver /\ ~browser_open) => FinalSteps \subseteq attempted

\* C14: a finalization step that raises never prevents the later steps: when
\* finalization is over, every step was attempted, browser close included, for
\* both entry points.
C14_EveryFinalStepAttempted ==
    ctl = "closed" => FinalSteps \subseteq attempted

\* finalize_and_save is over although four of its steps raised.
C14_Witness ==
    /\ ctl = "closed"
    /\ entry = "initialize_recording"
    /\ failed = {"auth", "html", "session", "close"}

\* C15: when the write of one persisted artifact fails its siblings are still
\* written: once the session-data step was attempted, operations.json is there.
C15_OperationsWrittenWhenMetadataFails ==
    "session" \in attempted => "operations.json" \in artifacts

\* C12: a supervisory tick whose page check raises a navigation-transient error
\* never ends the session: the loop sleeps and goes on to the next tick, still
\* capturing.
C12_TransientTickKeepsCapturing ==
    [][/\ (ctl = "eval" /\ ctl' # "eval" /\ last_check' = "transient")
            => ctl' = "nav_sleep"
       /\ ctl = "nav_sleep" => ctl' \in {"nav_sleep", "loop_top"}]_vars

\* A page check is in flight in the tick that follows a transient error.
C12_Witness ==
    /\ ctl = "eval"
    /\ last_check = "transient"
    /\ stop_reason = None

\* C13: when the loop is left, it is left for the condition of highest priority
\* among those that hold: stop flag, interrupted flag, about:blank, all pages
\* closed, genuine page error, user interrupt.
HighestPriority ==
    IF ctl = "loop_top"
    THEN IF stop_recording_flag THEN "stop_flag"
         ELSE IF recording_interrupted THEN "interrupted"
         ELSE "about_blank"
    ELSE IF ~page_open THEN "pages_closed"
         ELSE IF last_check' = "fatal" THEN "page_error"
         ELSE "user_interrupt"

C13_LoopLeftForHighestPriority ==
    [][(Capturing /\ ctl' = "auth") => stop_reason' = HighestPriority]_vars

\* C16: once safe_handle_element_selection has started, the interrupted flag is
\* eventually set, whatever the screenshot does, and the supervisory loop is left.
C16_SelectionEndsRecording ==
    (sel_pc # "idle") ~> (recording_interrupted /\ ~Capturing)

\* A session ended by the interrupted flag after the highlight screenshot failed.
C16_Witness ==
    /\ ctl = "closed"
    /\ stop_reason = "interrupted"
    /\ sel_pc = "done"
    /\ HighlightFile \notin artifacts

\* C17: when the written metadata.json carries a return-value anchor, the
\* highlight screenshot it names exists in the session directory.
C17_AnchorHasHighlightFile ==
    saved_anchor # None => HighlightFile \in artifacts

C19_OneSelectionPerActivation == page.selections <= page.hotkeys

\* An event that left the queue and every drained batch.
Consumed(id) ==
    /\ id <= transport.emitted
    /\ \A k \in 1..Len(transport.queue) : transport.queue[k].id # id
    /\ \A i \in Listeners : \A k \in 1..Len(transport.batch[i]) : transport.batch[i][k].id # id

Called == composed.args.called

\* The inner xpath returned as it is: a string without ' -> '.
Alone(inner_xpath) ==
    IF inner_xpath = NoXPath THEN <<>> ELSE <<PathSeg(inner_xpath)>>

\* C21: with an empty frame chain the composition returns the inner xpath
\* alone, whatever top-level page URL it is given.
C21_EmptyTraceGivesInnerXPath ==
    (Called /\ composed.args.frame_trace.chain = <<>>)
        => composed.result = Alone(composed.args.inner_xpath)

IsLocation(segment) == segment.kind \in {"PAGE:", "URL:"}
IsPath(segment) == segment.kind = ""

\* The xpath a level of the chain stands for in the composed locator.
LevelPath(level) == LevelSegments(level)[1]

\* C22: for a chain of k levels, a top-level page URL and an inner xpath,
\* the path segments of the result are the k iframe paths in chain order
\* followed by the inner xpath, which is the last segment, and every iframe
\* path stands between a PAGE:/URL: segment and a URL: segment.
C22_FramesBracketedThenInner ==
    LET chain == composed.args.frame_trace.chain
        k == Len(chain)
        paths == SelectSeq(composed.result, IsPath)
        last == Len(composed.result)
    IN  (/\ Called /\ k >= 1
         /\ composed.args.inner_xpath # NoXPath
         /\ composed.args.top_page_url # NoUrl)
        => /\ paths = [i \in 1..(k + 1) |->
                          IF i <= k THEN LevelPath(chain[i])
                          ELSE PathSeg(composed.args.inner_xpath)]
           /\ composed.result[last] = PathSeg(composed.args.inner_xpath)
           /\ \A i \in 1..(last - 1) :
                 IsPath(composed.result[i])
                     => /\ i > 1 /\ IsLocation(composed.result[i - 1])
                        /\ composed.result[i + 1].kind = "URL:"

\* C23: the composed locator has no two adjacent PAGE:/URL: segments that
\* name the same URL.
C23_NoAdjacentDuplicateUrl ==
    Called =>
        \A i \in 1..(Len(composed.result) - 1) :
            ~ /\ IsLocation(composed.result[i])
              /\ IsLocation(composed.result[i + 1])
              /\ composed.result[i].text = composed.result[i + 1].text

NoInjectedNode == ~hl.styled /\ ~hl.frame_box /\ ~hl.top_box

C25_NothingLeftAfterHighlight ==
    hl.pc \in {"done", "cancelled"} => NoInjectedNode

\* C26: a handler whose highlighter call timed out or raised, or left no
\* screenshot file, carries no screenshot into its operation; an operation
\* is appended with a screenshot only while that file is in the session
\* directory; and every completed handler has appended its operation.
C26_ScreenshotNullOrOnDisk ==
    /\ [][\A t \in Tasks :
            /\ (\E wrote \in BOOLEAN :
                    TakeScreenshot(t, wrote, FALSE)) => rec'.shot[t] = NoShot
            /\ (rec.pc[t] = "shot" /\ rec'.pc[t] = "ctx" /\ rec.sid[t] \notin rec'.files)
                   => rec'.shot[t] = NoShot
            /\ (rec.pc[t] = "ctx" /\ rec'.pc[t] = "done" /\ Len(rec'.appended[t]) > Len(rec.appended[t]))
                   => \/ rec.shot[t] = NoShot
                      \/ rec.shot[t] \in rec.files]_vars
    /\ [](\A t \in Tasks : rec.pc[t] = "done" => Len(rec.appended[t]) = 1)

\* One operation was appended without a screenshot, a later one with its
\* screenshot file on disk.
C26_Witness ==
    \E i, j \in 1..Len(rec.operations) :
        /\ rec.operations[i].screenshot = NoShot /\ ~rec.operations[i].error
        /\ rec.operations[j].screenshot # NoShot
        /\ rec.operations[j].screenshot \in rec.files

\* C27: a monitor sample of a url whose cache entry has the sampled content
\* hash leaves the entry as it is, content hash and last_updated; a sample
\* with another content hash sets both.
C27_SameHashLeavesEntry ==
    [][(MonitorSample(FALSE) /\ mon_url \in DOMAIN html_cache)
         => IF html_cache[mon_url].content_hash = page_hash
            THEN html_cache'[mon_url] = html_cache[mon_url]
            ELSE /\ html_cache'[mon_url].content_hash = page_hash
                 /\ html_cache'[mon_url].last_updated # html_cache[mon_url].last_updated]_vars

\* C28: when capture goes on after a listener setup that raised, whose
\* script check said not ready or failed, or whose DOM wait timed out, the
\* removal of the initialization overlay was attempted, for both entry points.
C28_OverlayRemovalAttempted ==
    (ov.pc = "capturing"
     /\ ov.setup_result \in {"raises", "not_ready", "check_failed", "dom_timeout"})
        => ov.removal_attempted

\* Task t takes a step of its own call: it enters, its screenshot comes back,
\* or it appends and leaves the gate (being woken is the step of the holder).
OwnStep(t) ==
    \/ rec.pc[t] = "idle" /\ rec'.pc[t] # "idle"
    \/ rec.pc[t] = "shot" /\ rec'.pc[t] = "ctx"
    \/ rec.pc[t] = "ctx" /\ rec'.pc[t] = "done"

\* The log after the step is the log before it with one operation more,
\* which carries the action, selector and value of the call e.
AppendsGiven(e) ==
    /\ Len(rec'.operations) = Len(rec.operations) + 1
    /\ SubSeq(rec'.operations, 1, Len(rec.operations)) = rec.operations
    /\ LET op == rec'.operations[Len(rec'.operations)]
       IN /\ op.action = e.type
          /\ op.selector = e.selector
          /\ op.value = e.value

C30_SavedAnalysisLoads ==
    (store.sm_call.op = "save_analysis" /\ store.sm_call.returned) =>
        LET s == store.sm_call.session
            a == store.sm_call.arg
            file == store.analysis_json[s]
        IN  /\ file.state = "ok"
            /\ file.text.analyzed
            /\ file.text.signature = a.signature
            /\ file.text.parameters = a.n
            /\ LoadSession(s).found
            /\ LoadSession(s).ai_analysis = JsonLoad(file.text)

\* The session directory of s holds a metadata.json.
SessionExists(s) ==
    s \in store.session_dirs /\ store.metadata_json[s].state # "absent"

\* A readable file of s marks its analysis as done.
MarkedAnalyzed(s) ==
    \/ store.analysis_json[s].state = "ok" /\ store.analysis_json[s].text.analyzed
    \/ store.metadata_json[s].state = "ok" /\ store.metadata_json[s].text.analyzed

\* C31: generate_function(s) returns function code only for a session that
\* exists and whose analysis is marked analyzed; for a missing session and
\* for a session not yet analyzed it raises ValueError and returns no code.
C31_CodeOnlyForAnalyzedSession ==
    [][\A s \in SessionIds, keyed \in BOOLEAN :
          GenerateFunction(s, keyed) =>
              LET r == store'.sm_call
              IN  /\ r.code => SessionExists(s) /\ MarkedAnalyzed(s)
                  /\ (~SessionExists(s) \/ ~MarkedAnalyzed(s)) =>
                         r.error = "ValueError" /\ ~r.code]_vars

\* generate_function returned the code of an analyzed session while the
\* other session has no metadata.json.
C31_Witness ==
    /\ store.sm_call.op = "generate_function"
    /\ store.sm_call.code
    /\ MarkedAnalyzed(store.sm_call.session)
    /\ \E s \in SessionIds : ~SessionExists(s)

\* The recorder wrote both files of s, auth_state.json is there, the saved
\* log has at least one operation and no file marks s as analyzed.
RecordedNotAnalyzed(s) ==
    /\ s \in store.session_dirs
    /\ store.metadata_json[s].state = "ok"
    /\ store.operations_json[s].state = "ok"
    /\ s \in store.auth_state
    /\ store.recorded[s] >= 1
    /\ ~MarkedAnalyzed(s)

\* C39: for a session directory written by the recorder that has
\* auth_state.json, at least one recorded operation and no analysis,
\* list_sessions reports the status 'recorded' and an operations_count equal
\* to the number of recorded operations.
C39_RecordedSessionListed ==
    [][ListSessions =>
          \A s \in SessionIds :
              RecordedNotAnalyzed(s) =>
                  /\ store'.sm_call.listing[s].listed
                  /\ store'.sm_call.listing[s].status = "recorded"
                  /\ store'.sm_call.listing[s].operations_count = store.recorded[s]]_vars

\* The order the finalization steps are said to have at both entry points.
StatedOrder ==
    <<"auth", "flush", "monitor", "await_monitor", "html", "session", "close",
      "closed">>

InFinalization(position) ==
    \E k \in 1..(Len(StatedOrder) - 1) : StatedOrder[k] = position

\* C32: both finalization entry points, the end of start_recording and
\* finalize_and_save, perform the steps in the same order: auth-state
\* persistence, pending-input flush, monitor cancellation-and-await, HTML
\* cache persistence, session-data persistence, browser close.
C32_SameFinalizationOrder ==
    [][/\ (~InFinalization(ctl) /\ InFinalization(ctl')) => ctl' = StatedOrder[1]
       /\ (InFinalization(ctl) /\ ctl' # ctl /\ ctl' # "crashed") =>
              \E k \in 1..(Len(StatedOrder) - 1) :
                  StatedOrder[k] = ctl /\ StatedOrder[k + 1] = ctl']_vars

\* The sample the monitor is about to take sees a new URL.
UrlChanged == mon_url # last_url

\* The sample the monitor is about to take sees new content on the URL of
\* the sample before.
HashChanged ==
    /\ mon_url = last_url
    /\ \/ mon_url \notin DOMAIN html_cache
       \/ html_cache[mon_url].content_hash # page_hash

\* C33: each URL change the monitor detects, and each content-hash change on
\* an unchanged URL, updates the cache entry of the current URL and appends
\* one entry to the ordered visit timeline.
C33_ChangeUpdatesCacheAndTimeline ==
    [][(MonitorSample(FALSE) /\ (UrlChanged \/ HashChanged)) =>
          /\ mon_url \in DOMAIN html_cache'
          /\ html_cache'[mon_url].content_hash = page_hash
          /\ html_cache'[mon_url].last_updated = samples'
          /\ url_timeline' = Append(url_timeline, mon_url)]_vars

\* C34: the monitor's consecutive-unchanged counter is reset to 0 by every URL
\* change and every content-hash change, the slower poll interval is used only
\* on a tick where the counter has exceeded 10, and the counter never exceeds
\* 11 however long the page stays unchanged.
C34_CounterResetAndBounded ==
    /\ [](consecutive_same_count <= 11)
    /\ [][(MonitorSample(FALSE) /\ (UrlChanged \/ HashChanged)) =>
             consecutive_same_count' = 0]_vars
    /\ [][(mon_pc # "sleep2" /\ mon_pc' = "sleep2") =>
             /\ MonitorSample(FALSE)
             /\ consecutive_same_count' > 10]_vars
    /\ [][(MonitorSample(FALSE) /\ consecutive_same_count' <= 10) =>
             mon_pc' = "sleep"]_vars

\* The page stayed unchanged through two long sleeps: the counter is back at
\* 11 after it was reset to 8.
C34_Witness ==
    /\ mon_pc = "sleep2"
    /\ consecutive_same_count = 11
    /\ samples >= 15

\* C35: finalization persists a complete log: no operation is appended to
\* the in-memory operation log after operations.json has been written, that
\* is, every event handler that was given a step_id before termination, one
\* still waiting for the gate or inside its screenshot included, has appended
\* its operation when the log is persisted.
C35_LogCompleteWhenPersisted ==
    /\ [][("operations.json" \in artifacts) => rec'.operations = rec.operations]_vars
    /\ [][SaveSessionData =>
             \A t \in Tasks : rec.pc[t] # "idle" => rec.pc[t] = "done"]_vars

\* C40: pending_input_operations is empty in every reachable state, nothing
\* ever inserts into it, so the pending-input flush step of finalization
\* never appends an operation to the log.
C40_NothingPendingNothingFlushed ==
    /\ [](DOMAIN rec.pending_input_operations = {})
    /\ [][FlushPending => rec'.operations = rec.operations]_vars

\* The flush step has run in a session that recorded an input, replaced an
\* earlier input of the same field, and has another handler still under way.
C40_Witness ==
    /\ "flush" \in attempted
    /\ \E i \in 1..Len(rec.operations) : rec.operations[i].action = "input"
    /\ rec.superseded # {}
    /\ \E t \in Tasks : rec.pc[t] \in {"wait", "shot", "ctx"}

\* C36: the host-side element_selection_mode flag is monotone: once an
\* element_selection_mode_start or element_selected event has set it, it is
\* never cleared for the rest of the session, so after the user cancels the
\* selection with Escape, no element chosen, every later click event is
\* dropped rather than recorded.
C36_ModeFlagNeverCleared ==
    /\ [][element_selection_mode => element_selection_mode']_vars
    /\ [](page.cancel_click # "recorded")

\* The user pressed the hotkey, left the selection with Escape in every
\* frame without choosing an element, and the click made afterwards was
\* dropped by safe_handle_click.
C36_Witness ==
    /\ page.cancel_click = "skipped"
    /\ page.escaped
    /\ page.selections = 0
    /\ \A f \in Frames : ~page.frame_mode[f]
    /\ element_selection_mode

\* ------------------------------------------------- C37, C38
ActiveKeys(provider) ==
    {provider.active[i] : i \in 1..Len(provider.active)}

IsActive(name) == name \in ActiveKeys(store.provider)

OtherKeyStartsWith(name) ==
    \E i \in 1..Len(store.provider.active) :
        /\ store.provider.active[i] # name
        /\ StartsWith(store.provider.active[i], name)

\* C37: whenever a session is active under exactly the name given,
\* finalize_recording(name) stops and finalizes that session, even when
\* another active key merely starts with the name, and when it succeeds it
\* removes that session and no other from the active set.
C37_FinalizesTheNamedSession ==
    [][\A name \in SessionNames, ok \in BOOLEAN :
           (FinalizeRecording(name, ok) /\ IsActive(name))
           => /\ store'.provider.last.key = name
              /\ store'.provider.finalized = store.provider.finalized \cup {name}
              /\ ok => ActiveKeys(store'.provider) =
                           ActiveKeys(store.provider) \ {name}]_vars

\* A session registered under a longer key that starts with the name was
\* finalized while the session of that very name is still active.
C37_Witness ==
    /\ store.provider.last.name = <<"job">>
    /\ store.provider.last.key = <<"job", "_extra">>
    /\ store.provider.last.success
    /\ IsActive(<<"job">>)

SomeAttemptProducedFunction ==
    \E i \in 1..Len(store.ai.history) : store.ai.history[i] = "function"

\* C38: trigger_ai_analysis returns success=True only when some attempt
\* reported SUCCESS and produced function.py; there are at most three agent
\* invocations, and when all of them fail or leave no result the call
\* returns success=False.
C38_SuccessOnlyWithFunction ==
    /\ Len(store.ai.history) <= max_attempts
    /\ store.ai.pc = "returned" =>
           /\ store.ai.success => SomeAttemptProducedFunction
           /\ ~SomeAttemptProducedFunction => ~store.ai.success

\* Three attempts without a function, and the call returned success with
\* the error template as its function code.
C38_Witness ==
    /\ store.ai.pc = "returned"
    /\ Len(store.ai.history) = max_attempts
    /\ ~SomeAttemptProducedFunction
    /\ store.ai.success
    /\ store.ai.code = ErrorFunction

====
